---- MODULE Spec2Model ----
(***************************************************************************)
(* Mode-configuration stores of Roo-Code: the four (scope, format) stores, *)
(* their loaders and the precedence merge (services/modeConfig), the       *)
(* legacy-to-split migration (commands/migrateRoomodes), and the two       *)
(* managers that write and watch them (CustomModesManager,                 *)
(* YamlModesManager).                                                      *)
(*                                                                         *)
(* JavaScript strings are sequences of one-character strings, so that the  *)
(* slug pattern, endsWith and basename are computed and not looked up.     *)
(* Undefined (a missing property) is the one-element sequence below, which *)
(* is no string of the model.                                              *)
(***************************************************************************)
EXTENDS Integers, Sequences, FiniteSets, TLC

VARIABLES
    fs,        \* the files: py = <project>/.roo/modes, pl = <project>/.roomodes,
               \* gy = <global>/modes, gl = <global>/.roomodes,
               \* gs = <global>/settings/<customModes file>,
               \* gm = <global>/yaml-modes
    wfail,     \* TRUE while the file system rejects writes (EACCES, ENOSPC)
    edits,     \* number of edits from outside the program still to come
    lastOp,    \* name of the operation that ran last
    prevOp,    \* name of the operation that ran before it
    ret,       \* what that operation returned (the merged view of getCustomModes)
    \* CustomModesManager
    isWriting, writeQueue, isUpdatingMode, updatingModeSlug,
    calls,     \* the updateCustomMode calls: where each one stands, and its arguments
    drain,     \* the running processWriteQueue: its caller, the operation it awaits
    resetTimers \* number of pending setTimeout(reset isUpdatingMode, 1000)

cmVars == <<isWriting, writeQueue, isUpdatingMode, updatingModeSlug, calls, drain,
            resetTimers>>

VARIABLES
    \* YamlModesManager
    yamlIsWriting, yamlWriteQueue, cachedModes, cachedAt, editLock,
    yamlCalls,  \* the updateYamlMode calls
    yamlDrain,  \* the running chain of processWriteQueue
    lockTimers, \* the pending timers that delete a slug from editLock
    gets,       \* the getYamlModes calls
    events,     \* file-watcher notifications not yet delivered
    clock,      \* Date.now(), in units of cacheTTL
    watched,    \* what the watcher handler that ran last did
    cacheStale  \* the cached view holds a directory read older than an invalidation

ymVars == <<yamlIsWriting, yamlWriteQueue, cachedModes, cachedAt, editLock, yamlCalls,
            yamlDrain, lockTimers, gets, events, clock, watched, cacheStale>>

VARIABLES
    \* YamlModesManager of core/config/YamlModesManager.ts (injected file system)
    cache, stamp,
    scan,       \* the getModes call that awaits scanModes
    written     \* the updateYamlMode or deleteYamlMode call that ran last

diVars == <<cache, stamp, scan, written>>

VARIABLES
    \* the watcher setup of CustomModesManager and of the queueing YamlModesManager
    disposables \* the listeners and watchers in place, and where each setup stands

mgrVars == <<cmVars, ymVars, diVars, disposables>>

\* what the steps of CustomModesManager and of the queueing YamlModesManager
\* leave alone
logVars == <<edits, lastOp, prevOp, ret, diVars, disposables>>

vars == <<fs, wfail, edits, lastOp, prevOp, ret, cmVars, ymVars, diVars, disposables>>

----------------------------------------------------------------------------
(* Bounds *)

MaxEnvEdits == 2

----------------------------------------------------------------------------
(* JavaScript values and strings *)

Undefined == <<"undefined">>

Truthy(s) == s # Undefined /\ s # <<>>

Alnum ==
    {"a","b","c","d","e","f","g","h","i","j","k","l","m","n","o","p","q","r","s",
     "t","u","v","w","x","y","z","A","B","C","D","E","F","G","H","I","J","K","L",
     "M","N","O","P","Q","R","S","T","U","V","W","X","Y","Z","0","1","2","3","4",
     "5","6","7","8","9"}

\* a pattern that only asks for a non-empty string
SlugPattern_anyChar(s) == Len(s) > 0

\* /^[a-zA-Z0-9-]+$/.test(s), s a string
SlugPattern(s) == Len(s) > 0 /\ \A i \in 1..Len(s) : s[i] \in Alnum \cup {"-"}

EndsWith(s, suffix) ==
    /\ Len(s) >= Len(suffix)
    /\ SubSeq(s, Len(s) - Len(suffix) + 1, Len(s)) = suffix

\* path.basename(file, ext): the extension is stripped unless it is the whole name
Basename(file, ext) ==
    IF EndsWith(file, ext) /\ Len(file) > Len(ext)
    THEN SubSeq(file, 1, Len(file) - Len(ext))
    ELSE file

YamlExt == <<".", "y", "a", "m", "l">>
YmlExt == <<".", "y", "m", "l">>

toolGroups == {"read", "edit", "browser", "command", "mcp", "modes"}

\* A group grant. In an array (legacy format) o = "bare" is the bare group name
\* and any other o the options of a [name, options] pair; in an object (split
\* format and internal) o is the value under key g.
OptionsTruthy(o) == o \in {"{}", "{re}"}
OptionsNullish(o) == o \in {"undefined", "null"}

\* obj[k] = v on an object kept as its sequence of (key, value) in insertion order
ObjSet(obj, k, v) ==
    IF \E i \in 1..Len(obj) : obj[i].g = k
    THEN [i \in 1..Len(obj) |-> IF obj[i].g = k THEN [g |-> k, o |-> v] ELSE obj[i]]
    ELSE Append(obj, [g |-> k, o |-> v])

\* Map.set(cfg.slug, cfg) on a Map kept as its sequence of values in insertion order
MapSet(map, cfg) ==
    IF \E i \in 1..Len(map) : map[i].slug = cfg.slug
    THEN [i \in 1..Len(map) |-> IF map[i].slug = cfg.slug THEN cfg ELSE map[i]]
    ELSE Append(map, cfg)

\* F(v) for the value v of e: e is computed once, however often F uses v
With(e, F(_)) == CHOOSE r \in {F(v) : v \in {e}} : TRUE

MapHas(map, slug) == \E i \in 1..Len(map) : map[i].slug = slug
MapGet(map, slug) == map[CHOOSE i \in 1..Len(map) : map[i].slug = slug]
MapKeys(map) == {map[i].slug : i \in 1..Len(map)}

----------------------------------------------------------------------------
(* Schemas (modeSchemas.ts) *)

groupOptionsSchema(o) == o \in {"{}", "{re}"}

groupsSchemaV2(groups) ==
    /\ groups.kind = "object"
    /\ \A i \in 1..Len(groups.items) :
          /\ groups.items[i].g \in toolGroups
          /\ (OptionsNullish(groups.items[i].o) \/ groupOptionsSchema(groups.items[i].o))

groupEntryArraySchemaV1(groups) ==
    /\ groups.kind = "array"
    /\ \A i \in 1..Len(groups.items) :
          /\ groups.items[i].g \in toolGroups
          /\ (groups.items[i].o = "bare" \/ groupOptionsSchema(groups.items[i].o))
    /\ \A i, j \in 1..Len(groups.items) : groups.items[i].g = groups.items[j].g => i = j

modeConfigInputSchemaV1(c) ==
    /\ c.name # Undefined /\ Len(c.name) >= 1
    /\ c.roleDefinition # Undefined /\ Len(c.roleDefinition) >= 1
    /\ groupEntryArraySchemaV1(c.groups)

modeConfigInputSchemaV2(c) ==
    /\ c.name # Undefined /\ Len(c.name) >= 1
    /\ c.roleDefinition # Undefined /\ Len(c.roleDefinition) >= 1
    /\ groupsSchemaV2(c.groups)

----------------------------------------------------------------------------
(* The values the files of the model hold *)

SlugA == <<"a">>
SlugB == <<"b">>
SlugBad == <<"a", "_">>
SlugEmpty == <<>>

FileA == SlugA \o YamlExt
FileB == SlugB \o YamlExt
FileBad == SlugBad \o YamlExt
FileYml == SlugB \o YmlExt
FileModeA == SlugA \o <<".", "m", "o", "d", "e">> \o YamlExt
FileModeB == SlugB \o <<".", "m", "o", "d", "e">> \o YamlExt

\* readdir order
FileOrder == <<FileA, FileBad, FileB, FileYml, FileModeA, FileModeB>>
FileNames == {FileOrder[i] : i \in 1..Len(FileOrder)}

NameOne == <<"N", "1">>
NameTwo == <<"N", "2">>
RoleOne == <<"R", "1">>
InstrOne == <<"C", "1">>

NoFile ==
    [st |-> "absent", slug |-> Undefined, name |-> Undefined, roleDefinition |-> Undefined,
     customInstructions |-> Undefined, groups |-> [kind |-> "undefined", items |-> <<>>]]

\* split-format documents: the second one declares a slug of its own
YamlDocOne ==
    [st |-> "ok", slug |-> Undefined, name |-> NameOne, roleDefinition |-> RoleOne,
     customInstructions |-> Undefined,
     groups |-> [kind |-> "object", items |-> <<[g |-> "read", o |-> "null"]>>]]
YamlDocTwo ==
    [st |-> "ok", slug |-> SlugB, name |-> NameTwo, roleDefinition |-> RoleOne,
     customInstructions |-> InstrOne,
     groups |-> [kind |-> "object",
                 items |-> <<[g |-> "edit", o |-> "{re}"], [g |-> "read", o |-> "null"]>>]]
YamlDocs == {YamlDocOne, YamlDocTwo}

\* legacy entries: bodies of the aggregate file's customModes array
BodyOne(slug) ==
    [t |-> "object", slug |-> slug, name |-> NameOne, roleDefinition |-> RoleOne,
     customInstructions |-> InstrOne,
     groups |-> [kind |-> "array", items |-> <<[g |-> "read", o |-> "bare"]>>],
     source |-> "undefined"]
BodyTwo(slug) ==
    [t |-> "object", slug |-> slug, name |-> NameTwo, roleDefinition |-> RoleOne,
     customInstructions |-> Undefined,
     groups |-> [kind |-> "array",
                 items |-> <<[g |-> "read", o |-> "bare"], [g |-> "edit", o |-> "{}"]>>],
     source |-> "undefined"]
NullEntry == [BodyOne(Undefined) EXCEPT !.t = "null"]

LegacyEntries ==
    {BodyOne(SlugA), BodyTwo(SlugA), BodyTwo(SlugB), BodyOne(SlugBad),
     BodyOne(SlugEmpty), BodyOne(Undefined), NullEntry}

EmptyDir == [exists |-> TRUE, files |-> [f \in FileNames |-> NoFile]]
NoDir == [exists |-> FALSE, files |-> [f \in FileNames |-> NoFile]]
NoLegacy == [st |-> "absent", modes |-> <<>>]
LegacyOf(modes) == [st |-> "ok", modes |-> modes]

\* files that fail to load: st = "unreadable" when reading the file throws,
\* "syntax" when its text does not parse, "scalar" when it parses to a value
\* that is no mapping, "shape" when a legacy file has no customModes array
FailedFile(st) == [NoFile EXCEPT !.st = st]
FailedLegacy(st) == [st |-> st, modes |-> <<>>]

\* documents and entries whose body the record schema rejects
BogusGroup == [g |-> "bogus", o |-> "null"]
InvalidDocs ==
    {[YamlDocOne EXCEPT !.name = Undefined],
     [YamlDocOne EXCEPT !.roleDefinition = <<>>],
     [YamlDocOne EXCEPT !.groups.items = <<BogusGroup>>]}
InvalidEntries ==
    {[BodyOne(SlugB) EXCEPT !.name = Undefined],
     [BodyOne(SlugB) EXCEPT !.roleDefinition = <<>>],
     [BodyOne(SlugB) EXCEPT !.groups.items = <<[g |-> "bogus", o |-> "bare"]>>]}

----------------------------------------------------------------------------
(* Loaders and merge (services/modeConfig) *)

RECURSIVE V1Groups(_, _, _)
V1Groups(items, i, groups) ==
    IF i > Len(items) THEN groups
    ELSE V1Groups(items, i + 1,
                  ObjSet(groups, items[i].g,
                         IF items[i].o = "bare" THEN "undefined" ELSE items[i].o))

convertV1ToInternal(input, slug, source, origin) ==
    [slug |-> slug,
     name |-> IF Truthy(input.name) THEN input.name ELSE slug,
     roleDefinition |-> IF Truthy(input.roleDefinition) THEN input.roleDefinition ELSE <<>>,
     customInstructions |-> input.customInstructions,
     groups |-> V1Groups(IF input.groups.kind = "array" THEN input.groups.items ELSE <<>>,
                         1, <<>>),
     source |-> source,
     origin |-> origin]

\* the loop over customModes; a null element makes mode.slug throw, and the
\* catch around the loop returns what the map holds by then
RECURSIVE RoomodesLoop(_, _, _, _)
RoomodesLoop(modes, source, i, map) ==
    IF i > Len(modes) \/ modes[i].t = "null" THEN map
    ELSE IF ~Truthy(modes[i].slug) \/ ~SlugPattern(modes[i].slug)
         THEN RoomodesLoop(modes, source, i + 1, map)
         ELSE With(MapSet(map, convertV1ToInternal(modes[i], modes[i].slug,
                                                   source, "json")),
                   LAMBDA set : RoomodesLoop(modes, source, i + 1, set))

loadRoomodesModes(file, source) ==
    IF file.st # "ok" THEN <<>> ELSE RoomodesLoop(file.modes, source, 1, <<>>)

loadProjectRoomodesModes(f) == loadRoomodesModes(f.pl, "project")
loadGlobalRoomodesModes(f) == loadRoomodesModes(f.gl, "global")

\* the loop over the directory's *.yaml files
RECURSIVE YamlLoop(_, _, _, _)
YamlLoop(dir, source, i, map) ==
    IF i > Len(FileOrder) THEN map
    ELSE LET file == FileOrder[i]
             c == dir.files[file]
             slug == Basename(file, YamlExt)
             loaded ==
                 /\ c.st # "absent"
                 /\ EndsWith(file, YamlExt)
                 /\ SlugPattern(slug)
                 /\ c.st = "ok"
                 /\ modeConfigInputSchemaV2(c)
         IN  With(IF loaded
                  THEN MapSet(map, [slug |-> slug, name |-> c.name,
                                    roleDefinition |-> c.roleDefinition,
                                    customInstructions |-> c.customInstructions,
                                    groups |-> c.groups.items,
                                    source |-> source, origin |-> "yaml"])
                  ELSE map,
                  LAMBDA set : YamlLoop(dir, source, i + 1, set))

loadProjectYamlModes(f) ==
    IF ~f.py.exists THEN <<>> ELSE YamlLoop(f.py, "project", 1, <<>>)

\* the global loader creates its directory when it is missing
loadGlobalYamlModes(f) ==
    IF ~f.gy.exists THEN <<>> ELSE YamlLoop(f.gy, "global", 1, <<>>)

RECURSIVE MapSetAll(_, _, _)
MapSetAll(map, from, i) ==
    IF i > Len(from) THEN map
    ELSE With(MapSet(map, from[i]), LAMBDA set : MapSetAll(set, from, i + 1))

\* the modes of each map of maps[1], maps[2], ... set in turn
RECURSIVE Merged(_, _, _)
Merged(maps, i, map) ==
    IF i > Len(maps) THEN map
    ELSE With(MapSetAll(map, maps[i], 1), LAMBDA set : Merged(maps, i + 1, set))

\* the merge with the two project stores applied in the opposite order
loadAllModes_projectLegacyLast(f) ==
    With(<<loadGlobalRoomodesModes(f), loadGlobalYamlModes(f),
           loadProjectYamlModes(f), loadProjectRoomodesModes(f)>>,
         LAMBDA maps : Merged(maps, 1, <<>>))

loadAllModes(f) ==
    With(<<loadGlobalRoomodesModes(f), loadGlobalYamlModes(f),
           loadProjectRoomodesModes(f), loadProjectYamlModes(f)>>,
         LAMBDA maps : Merged(maps, 1, <<>>))

\* fs after loadAllModes: mkdirSync of <global>/modes, which throws (and is
\* caught) while writes are rejected
AfterLoadAllModes(f, fail) ==
    IF ~f.gy.exists /\ ~fail THEN [f EXCEPT !.gy.exists = TRUE] ELSE f

----------------------------------------------------------------------------
(* CustomModesManager.getCustomModes *)

\* Object.entries(mode.groups) into the GroupEntry array
GroupEntries(groups) ==
    [i \in 1..Len(groups) |->
        IF OptionsTruthy(groups[i].o) THEN groups[i] ELSE [g |-> groups[i].g, o |-> "bare"]]

ConvertedMode(mode) ==
    [slug |-> mode.slug, name |-> mode.name, roleDefinition |-> mode.roleDefinition,
     customInstructions |-> mode.customInstructions,
     groups |-> GroupEntries(mode.groups), source |-> mode.source]

\* a view that is empty as soon as some file cannot be read or parsed
ConvertedModes_catch(f) ==
    IF \/ \E st \in {"pl", "gl"} : f[st].st \in {"unreadable", "syntax", "shape"}
       \/ \E st \in {"py", "gy"}, file \in FileNames :
             f[st].files[file].st \in {"unreadable", "syntax", "scalar"}
    THEN <<>>
    ELSE With(loadAllModes(f),
              LAMBDA allModes : [i \in 1..Len(allModes) |-> ConvertedMode(allModes[i])])

ConvertedModes(f) ==
    With(loadAllModes(f),
         LAMBDA allModes : [i \in 1..Len(allModes) |-> ConvertedMode(allModes[i])])

getCustomModes ==
    /\ fs' = AfterLoadAllModes(fs, wfail)
    /\ ret' = ConvertedModes(fs)
    /\ lastOp' = "getCustomModes"
    /\ prevOp' = lastOp
    /\ UNCHANGED <<wfail, edits, mgrVars>>

----------------------------------------------------------------------------
(* Split-format encoding (services/modeConfig) *)

convertToYamlFormat(mode) ==
    [name |-> mode.name, roleDefinition |-> mode.roleDefinition,
     customInstructions |-> mode.customInstructions, groups |-> mode.groups]

KeptInDocument(item) == item.o # "undefined"

\* new yaml.Document(data).toString({nullStr: ""}) as the document it parses back
\* to: a key whose value is undefined is not emitted, a null is emitted empty
YamlDocument(data) ==
    [st |-> "ok", slug |-> Undefined, name |-> data.name,
     roleDefinition |-> data.roleDefinition,
     customInstructions |-> data.customInstructions,
     groups |-> [kind |-> "object", items |-> SelectSeq(data.groups, KeptInDocument)]]

\* a save that removes the file when it is already there
saveYamlFile_unlinkExisting(dir, file, data, fail) ==
    IF fail THEN dir
    ELSE IF dir.files[file].st # "absent" THEN [dir EXCEPT !.files[file] = NoFile]
    ELSE [dir EXCEPT !.files[file] = YamlDocument(data)]

\* the directory after saveYamlFile(<dir>/<file>, data); a failed write is
\* caught and reported, and leaves the file as it was
saveYamlFile(dir, file, data, fail) ==
    IF fail THEN dir ELSE [dir EXCEPT !.files[file] = YamlDocument(data)]

----------------------------------------------------------------------------
(* commands/migrateRoomodes *)

MigrateTarget(mode) == mode.slug \o YamlExt

\* the loop over customModes; a null element makes mode.slug throw, which ends
\* the migration in its catch
RECURSIVE MigrateLoop(_, _, _, _)
MigrateLoop(modes, i, dir, fail) ==
    IF i > Len(modes) \/ modes[i].t = "null" THEN dir
    ELSE IF ~Truthy(modes[i].slug) \/ ~SlugPattern(modes[i].slug)
         THEN MigrateLoop(modes, i + 1, dir, fail)
         ELSE MigrateLoop(modes, i + 1,
                          saveYamlFile(dir, MigrateTarget(modes[i]),
                                       convertToYamlFormat(
                                           convertV1ToInternal(modes[i], modes[i].slug,
                                                               "project", "json")),
                                       fail),
                          fail)

\* <project>/.roo/modes after migrateRoomodes
MigratedDir(f, fail) ==
    IF f.pl.st \in {"absent", "syntax", "unreadable"} THEN f.py
    ELSE IF ~f.py.exists /\ fail THEN f.py
    ELSE MigrateLoop(IF f.pl.st = "ok" THEN f.pl.modes ELSE <<>>, 1,
                     [f.py EXCEPT !.exists = TRUE], fail)

\* a migration that removes the legacy file it has converted
MigratedRoomodes_removed(f) == IF f.pl.st = "ok" THEN NoLegacy ELSE f.pl

\* <project>/.roomodes after migrateRoomodes
MigratedRoomodes(f) == f.pl

migrateRoomodes ==
    /\ fs' = [fs EXCEPT !.py = MigratedDir(fs, wfail), !.pl = MigratedRoomodes(fs)]
    /\ lastOp' = "migrateRoomodes"
    /\ prevOp' = lastOp
    /\ ret' = <<>>
    /\ UNCHANGED <<wfail, edits, mgrVars>>

----------------------------------------------------------------------------
(* What happens outside the program: files edited by the user or by other  *)
(* tools, and the file system starting or ceasing to reject writes.        *)

Stores == {"py", "pl", "gy", "gl"}
YamlStores == {"py", "gy"}
LegacyStores == {"pl", "gl"}

EnvDone(op) ==
    /\ edits > 0
    /\ edits' = edits - 1
    /\ lastOp' = op
    /\ prevOp' = lastOp
    /\ ret' = <<>>
    /\ UNCHANGED mgrVars

\* the files that are written from outside
EditedFiles == {FileA, FileBad, FileB}

EnvPutYaml ==
    \E st \in YamlStores, file \in EditedFiles, doc \in YamlDocs :
        /\ fs' = [fs EXCEPT ![st] = [exists |-> TRUE,
                                     files |-> [fs[st].files EXCEPT ![file] = doc]]]
        /\ EnvDone("env")
        /\ UNCHANGED wfail

EnvPutLegacy ==
    \E st \in LegacyStores, entry \in LegacyEntries :
        /\ fs' = [fs EXCEPT ![st] =
                     LegacyOf(IF fs[st].st = "ok" THEN Append(fs[st].modes, entry)
                              ELSE <<entry>>)]
        /\ EnvDone("env")
        /\ UNCHANGED wfail

EnvBreakLegacy ==
    \E st \in LegacyStores, how \in {"syntax", "shape"} :
        /\ fs' = [fs EXCEPT ![st] = [st |-> how, modes |-> <<>>]]
        /\ EnvDone("env")
        /\ UNCHANGED wfail

EnvWriteFailure ==
    /\ wfail' = ~wfail
    /\ EnvDone("env")
    /\ UNCHANGED fs

\* a mode file that is written broken, with an invalid body, or well formed
FaultFiles == {FileA, FileB, FileYml}
FaultDocs ==
    {FailedFile("unreadable"), FailedFile("syntax"), FailedFile("scalar")}
        \cup InvalidDocs \cup {YamlDocOne}

EnvFaultYaml ==
    \E st \in YamlStores, file \in FaultFiles, doc \in FaultDocs :
        /\ fs' = [fs EXCEPT ![st] = [exists |-> TRUE,
                                     files |-> [fs[st].files EXCEPT ![file] = doc]]]
        /\ EnvDone("env")
        /\ UNCHANGED wfail

\* a legacy file that is left broken, or given one more entry
FaultLegacy(file) ==
    {FailedLegacy("unreadable"), FailedLegacy("syntax"), FailedLegacy("shape")}
        \cup {LegacyOf(IF file.st = "ok" THEN Append(file.modes, entry) ELSE <<entry>>) :
                 entry \in InvalidEntries \cup {BodyTwo(SlugB)}}

EnvFaultLegacy ==
    \E st \in LegacyStores :
        \E file \in FaultLegacy(fs[st]) :
            /\ fs' = [fs EXCEPT ![st] = file]
            /\ EnvDone("env")
            /\ UNCHANGED wfail

----------------------------------------------------------------------------
(* CustomModesManager: updateCustomMode, the write queue and its drain.    *)
(* A call advances from one await to the next in one step.                 *)

MaxUpdateCalls == 2

\* the calls of a behaviour
Calls == DOMAIN calls
CallIds == 1..MaxUpdateCalls

NameThree == <<"N", "3">>

\* the ModeConfig handed to updateCustomMode
ConfigOf(slug, source) ==
    [t |-> "object", slug |-> slug, name |-> NameThree, roleDefinition |-> RoleOne,
     customInstructions |-> InstrOne,
     groups |-> [kind |-> "array",
                 items |-> <<[g |-> "read", o |-> "bare"], [g |-> "edit", o |-> "{re}"]>>],
     source |-> source]

CallSlugs == {SlugA, SlugB}
CallSources == {"project", "global"}

\* a call: pc is the await it stands at; err: an error message was shown for
\* it; enqueued: its write operation was pushed; rejected: the file system
\* rejected its own write; fs0: the files when it was made
NoCall ==
    [pc |-> "idle", slug |-> Undefined, config |-> ConfigOf(Undefined, "undefined"),
     err |-> FALSE, enqueued |-> FALSE, rejected |-> FALSE, fs0 |-> <<>>]

NoOp == [kind |-> "none", call |-> 0]
CreateOp(c) == [kind |-> "create", call |-> c]
UpdateOp(c) == [kind |-> "update", call |-> c]
\* the operation of deleteCustomMode, with the files it found the slug in
DeleteOp(c, found) == [kind |-> "delete", call |-> c, found |-> found]
IdleDrain == [owner |-> 0, op |-> NoOp, stage |-> "idle", content |-> NoLegacy]

\* the first await of a queued operation
FirstStage(op) ==
    IF op.kind = "create" THEN "writeFile"
    ELSE IF op.kind = "delete" THEN "deleteCustomMode.roomodes"
    ELSE "readFile"

\* the manager's queue state as one value, for the operators below
Manager ==
    [isWriting |-> isWriting, writeQueue |-> writeQueue, calls |-> calls,
     drain |-> drain, resetTimers |-> resetTimers]

Becomes(m) ==
    /\ isWriting' = m.isWriting
    /\ writeQueue' = m.writeQueue
    /\ calls' = m.calls
    /\ drain' = m.drain
    /\ resetTimers' = m.resetTimers

\* the finally block of updateCustomMode without its timer
updateCustomMode_finally_noTimer(m, c, failed) ==
    [m EXCEPT !.calls[c].pc = "done", !.calls[c].err = @ \/ failed]

\* updateCustomMode's catch (when failed) and finally blocks
updateCustomMode_finally(m, c, failed) ==
    [m EXCEPT !.calls[c].pc = "done", !.calls[c].err = @ \/ failed,
              !.resetTimers = @ + 1]

\* a queueWrite that starts a drain whether or not one is running
queueWrite_unguarded(m, c, op, next) ==
    LET q == Append(m.writeQueue, op)
    IN  [m EXCEPT !.isWriting = TRUE,
                  !.writeQueue = Tail(q),
                  !.calls[op.call].enqueued = @ \/ op.kind = "update",
                  !.drain = [owner |-> c, op |-> Head(q), stage |-> FirstStage(Head(q)),
                             content |-> NoLegacy],
                  !.calls[c].pc = next]

\* queueWrite(op) by call c, which on return goes on at pc next; when the
\* queue is being drained the call returns at once
queueWrite(m, c, op, next) ==
    LET q == Append(m.writeQueue, op)
        pushed == [m EXCEPT !.writeQueue = q,
                            !.calls[op.call].enqueued = @ \/ op.kind = "update"]
    IN  IF m.isWriting
        THEN pushed
        ELSE [pushed EXCEPT !.isWriting = TRUE,
                            !.writeQueue = Tail(q),
                            !.drain = [owner |-> c, op |-> Head(q),
                                       stage |-> FirstStage(Head(q)),
                                       content |-> NoLegacy],
                            !.calls[c].pc = next]

\* updateCustomMode from its queueWrite on
updateCustomMode_queueWrite(m, c) ==
    IF m.isWriting
    THEN updateCustomMode_finally(queueWrite(m, c, UpdateOp(c), "done"), c, FALSE)
    ELSE queueWrite(m, c, UpdateOp(c), "processWriteQueue")

\* the exception of a queued operation reaches the call that awaits the
\* drain: the catch of resetCustomModes or of deleteCustomMode, or the catch
\* and finally blocks of updateCustomMode
queueWrite_throws(m, c) ==
    IF m.calls[c].pc \in {"resetCustomModes.getCustomModesFilePath",
                          "deleteCustomMode.queueWrite"}
    THEN [m EXCEPT !.calls[c].pc = "done", !.calls[c].err = TRUE]
    ELSE updateCustomMode_finally(m, c, TRUE)

\* a processWriteQueue that takes the operation pushed last
processWriteQueue_pop(m, thrown) ==
    IF thrown
    THEN queueWrite_throws(
             [m EXCEPT !.isWriting = FALSE, !.drain = IdleDrain,
                       !.calls[m.drain.op.call].rejected = TRUE],
             m.drain.owner)
    ELSE IF m.writeQueue # <<>>
    THEN [m EXCEPT !.writeQueue = SubSeq(@, 1, Len(@) - 1),
                   !.drain.op = m.writeQueue[Len(m.writeQueue)],
                   !.drain.stage = FirstStage(m.writeQueue[Len(m.writeQueue)]),
                   !.drain.content = NoLegacy]
    ELSE LET c == m.drain.owner
             stopped == [m EXCEPT !.isWriting = FALSE, !.drain = IdleDrain]
         IN  IF m.calls[c].pc = "getCustomModesFilePath"
             THEN updateCustomMode_queueWrite(stopped, c)
             ELSE IF m.calls[c].pc = "resetCustomModes.getCustomModesFilePath"
             THEN [stopped EXCEPT !.calls[c].pc = "resetCustomModes.writeFile"]
             ELSE IF m.calls[c].pc = "deleteCustomMode.queueWrite"
             THEN [stopped EXCEPT !.calls[c].pc = "done"]
             ELSE updateCustomMode_finally(stopped, c, FALSE)

\* processWriteQueue after the awaited operation has returned (thrown = FALSE):
\* the next operation is shifted, or the loop ends and the caller goes on;
\* after it has thrown: the finally block, and the exception reaches the caller
processWriteQueue(m, thrown) ==
    IF thrown
    THEN queueWrite_throws(
             [m EXCEPT !.isWriting = FALSE, !.drain = IdleDrain,
                       !.calls[m.drain.op.call].rejected = TRUE],
             m.drain.owner)
    ELSE IF m.writeQueue # <<>>
    THEN [m EXCEPT !.writeQueue = Tail(@),
                   !.drain.op = Head(m.writeQueue),
                   !.drain.stage = FirstStage(Head(m.writeQueue)),
                   !.drain.content = NoLegacy]
    ELSE LET c == m.drain.owner
             stopped == [m EXCEPT !.isWriting = FALSE, !.drain = IdleDrain]
         IN  IF m.calls[c].pc = "getCustomModesFilePath"
             THEN updateCustomMode_queueWrite(stopped, c)
             ELSE IF m.calls[c].pc = "resetCustomModes.getCustomModesFilePath"
             THEN [stopped EXCEPT !.calls[c].pc = "resetCustomModes.writeFile"]
             ELSE IF m.calls[c].pc = "deleteCustomMode.queueWrite"
             THEN [stopped EXCEPT !.calls[c].pc = "done"]
             ELSE updateCustomMode_finally(stopped, c, FALSE)

TargetOf(config) == IF config.source = "project" THEN "pl" ELSE "gs"

\* the groups array of the config as the Record that createNewMode is given
RECURSIVE NewModeGroups(_, _, _)
NewModeGroups(items, i, groups) ==
    IF i > Len(items) THEN groups
    ELSE NewModeGroups(items, i + 1,
                       ObjSet(groups, items[i].g,
                              IF items[i].o \in {"bare", "undefined", "null"} THEN "null"
                              ELSE items[i].o))

\* <project>/.roo/modes after createNewMode(mode): errors are shown, not thrown
createNewMode(dir, mode, fail) ==
    IF ~dir.exists /\ fail THEN dir
    ELSE saveYamlFile([dir EXCEPT !.exists = TRUE], mode.slug \o YamlExt,
                      convertToYamlFormat(mode), fail)

\* the customModes that updateModesInFile reads from a file
EntriesAt(file) == IF file.st = "ok" THEN file.modes ELSE <<>>

\* updateModesInFile's operation on the customModes it has read
UpdatedModes(modes, slug, modeWithSource) ==
    LET Others(m) == m.slug # slug
    IN  Append(SelectSeq(modes, Others), modeWithSource)

InitManager(nCalls) ==
    /\ isWriting = FALSE
    /\ writeQueue = <<>>
    /\ isUpdatingMode = FALSE
    /\ updatingModeSlug = Undefined
    /\ calls = [c \in 1..nCalls |-> NoCall]
    /\ drain = IdleDrain
    /\ resetTimers = 0

\* the call, up to its await of getCustomModes
updateCustomMode(c) ==
    \E slug \in CallSlugs, source \in CallSources :
        /\ c \in Calls
        /\ calls[c].pc = "idle"
        /\ \A d \in Calls : d < c => calls[d].pc # "idle"
        /\ isUpdatingMode' = TRUE
        /\ updatingModeSlug' = slug
        /\ calls' = [calls EXCEPT ![c] = [NoCall EXCEPT !.pc = "getCustomModes",
                                                        !.slug = slug,
                                                        !.config = ConfigOf(slug, source),
                                                        !.fs0 = fs]]
        /\ UNCHANGED <<fs, wfail, logVars, ymVars, isWriting, writeQueue, drain,
                       resetTimers>>

\* the call with a config whose slug field is not the slug it is called with
updateCustomMode_configSlug(c) ==
    \E slug \in CallSlugs, source \in CallSources :
        \E other \in CallSlugs \ {slug} :
            /\ c \in Calls
            /\ calls[c].pc = "idle"
            /\ \A d \in Calls : d < c => calls[d].pc # "idle"
            /\ isUpdatingMode' = TRUE
            /\ updatingModeSlug' = slug
            /\ calls' = [calls EXCEPT ![c] = [NoCall EXCEPT !.pc = "getCustomModes",
                                                            !.slug = slug,
                                                            !.config = ConfigOf(other, source),
                                                            !.fs0 = fs]]
            /\ UNCHANGED <<fs, wfail, logVars, ymVars, isWriting, writeQueue, drain,
                           resetTimers>>

\* getCustomModes has returned: a slug it does not hold is created as a split
\* file of the project, any other goes on to the file named by config.source
updateCustomMode_existingMode(c) ==
    /\ c \in Calls
    /\ calls[c].pc = "getCustomModes"
    /\ LET slug == calls[c].slug
           config == calls[c].config
           loaded == AfterLoadAllModes(fs, wfail)
       IN  IF slug \in MapKeys(ConvertedModes(fs))
           THEN /\ fs' = loaded
                /\ calls' = [calls EXCEPT ![c].pc = "fileExistsAtPath"]
           ELSE /\ fs' = [loaded EXCEPT !.py =
                            createNewMode(loaded.py,
                                [slug |-> slug,
                                 name |-> IF Truthy(config.name) THEN config.name ELSE slug,
                                 roleDefinition |-> IF Truthy(config.roleDefinition)
                                                    THEN config.roleDefinition ELSE <<>>,
                                 customInstructions |-> config.customInstructions,
                                 groups |-> NewModeGroups(config.groups.items, 1, <<>>),
                                 source |-> "project", origin |-> "yaml"],
                                wfail)]
                /\ calls' = [calls EXCEPT ![c].pc = "refreshMergedState",
                                          ![c].err = wfail]
    /\ UNCHANGED <<wfail, logVars, ymVars, isWriting, writeQueue,
                   isUpdatingMode, updatingModeSlug, drain, resetTimers>>

\* the new mode's refreshMergedState has returned, and the call ends
updateCustomMode_refreshMergedState(c) ==
    /\ c \in Calls
    /\ calls[c].pc = "refreshMergedState"
    /\ fs' = AfterLoadAllModes(fs, wfail)
    /\ Becomes(updateCustomMode_finally(Manager, c, FALSE))
    /\ UNCHANGED <<wfail, logVars, ymVars, isUpdatingMode, updatingModeSlug>>

\* fileExistsAtPath has returned, in updateCustomMode (project) or in
\* getCustomModesFilePath (global), which queues the creation of a missing file
updateCustomMode_fileExistsAtPath(c) ==
    /\ c \in Calls
    /\ calls[c].pc = "fileExistsAtPath"
    /\ IF calls[c].config.source = "project" \/ fs.gs.st # "absent"
       THEN Becomes(updateCustomMode_queueWrite(Manager, c))
       ELSE IF isWriting
       THEN Becomes(updateCustomMode_queueWrite(
                        queueWrite(Manager, c, CreateOp(c), "fileExistsAtPath"), c))
       ELSE Becomes(queueWrite(Manager, c, CreateOp(c), "getCustomModesFilePath"))
    /\ UNCHANGED <<fs, wfail, logVars, ymVars, isUpdatingMode, updatingModeSlug>>

\* the awaited operation's readFile has returned
updateModesInFile_readFile ==
    /\ drain.stage = "readFile"
    /\ LET file == fs[TargetOf(calls[drain.op.call].config)]
       IN  IF \/ file.st = "shape"
              \/ \E i \in 1..Len(file.modes) : file.modes[i].t = "null"
           THEN Becomes(processWriteQueue(Manager, TRUE))
           ELSE /\ drain' = [drain EXCEPT !.stage = "writeFile", !.content = file]
                /\ UNCHANGED <<isWriting, writeQueue, calls, resetTimers>>
    /\ UNCHANGED <<fs, wfail, logVars, ymVars, isUpdatingMode, updatingModeSlug>>

\* the awaited operation's writeFile has returned or been rejected
updateModesInFile_writeFile ==
    /\ drain.stage = "writeFile"
    /\ LET c == drain.op.call
           config == calls[c].config
           target == TargetOf(config)
           modeWithSource == [config EXCEPT !.source = IF config.source = "project"
                                                       THEN "project" ELSE "global"]
       IN  IF wfail
           THEN /\ Becomes(processWriteQueue(Manager, TRUE))
                /\ UNCHANGED fs
           ELSE IF drain.op.kind = "create"
           THEN /\ fs' = [fs EXCEPT !.gs = LegacyOf(<<>>)]
                /\ Becomes(processWriteQueue(Manager, FALSE))
           ELSE /\ fs' = [fs EXCEPT ![target] =
                            LegacyOf(UpdatedModes(drain.content.modes, calls[c].slug,
                                                  modeWithSource))]
                /\ drain' = [drain EXCEPT !.stage = "refreshMergedState"]
                /\ UNCHANGED <<isWriting, writeQueue, calls, resetTimers>>
    /\ UNCHANGED <<wfail, logVars, ymVars, isUpdatingMode, updatingModeSlug>>

\* the awaited operation's refreshMergedState has returned
refreshMergedState ==
    /\ drain.stage = "refreshMergedState"
    /\ fs' = AfterLoadAllModes(fs, wfail)
    /\ Becomes(processWriteQueue(Manager, FALSE))
    /\ UNCHANGED <<wfail, logVars, ymVars, isUpdatingMode, updatingModeSlug>>

\* customModesSettingsSchema.safeParse of loadModesFromFile: the file is an
\* object whose customModes is an array of valid records with distinct slugs
customModesSettingsSchema(file) ==
    /\ file.st = "ok"
    /\ \A i \in 1..Len(file.modes) :
          /\ file.modes[i].t = "object"
          /\ Truthy(file.modes[i].slug)
          /\ SlugPattern(file.modes[i].slug)
          /\ modeConfigInputSchemaV1(file.modes[i])
    /\ \A i, j \in 1..Len(file.modes) : file.modes[i].slug = file.modes[j].slug => i = j

\* loadModesFromFile(filePath): nothing when the file cannot be read or
\* parsed or fails the schema
loadModesFromFile(file) == IF customModesSettingsSchema(file) THEN file.modes ELSE <<>>

\* deleteCustomMode(slug), up to its first loadModesFromFile; the settings
\* file exists, so that getCustomModesFilePath queues nothing
deleteCustomMode(c) ==
    \E slug \in CallSlugs :
        /\ c \in Calls
        /\ calls[c].pc = "idle"
        /\ \A d \in Calls : d < c => calls[d].pc # "idle"
        /\ fs.gs.st # "absent"
        /\ calls' = [calls EXCEPT ![c] = [NoCall EXCEPT
                                             !.pc = "deleteCustomMode.loadModesFromFile",
                                             !.slug = slug, !.fs0 = fs]]
        /\ UNCHANGED <<fs, wfail, logVars, ymVars, isWriting, writeQueue, drain,
                       resetTimers, isUpdatingMode, updatingModeSlug>>

\* both files are loaded: a slug in neither of them is an error, otherwise
\* the operation is queued, and awaited when no drain is running
deleteCustomMode_loadModesFromFile(c) ==
    /\ c \in Calls
    /\ calls[c].pc = "deleteCustomMode.loadModesFromFile"
    /\ LET slug == calls[c].slug
           found == {st \in {"pl", "gs"} :
                        /\ fs[st].st # "absent"
                        /\ MapHas(loadModesFromFile(fs[st]), slug)}
       IN  IF found = {}
           THEN /\ calls' = [calls EXCEPT ![c].pc = "done", ![c].err = TRUE]
                /\ UNCHANGED <<isWriting, writeQueue, drain, resetTimers>>
           ELSE IF isWriting
           THEN Becomes([queueWrite(Manager, c, DeleteOp(c, found), "done")
                            EXCEPT !.calls[c].pc = "done"])
           ELSE Becomes(queueWrite(Manager, c, DeleteOp(c, found),
                                   "deleteCustomMode.queueWrite"))
    /\ UNCHANGED <<fs, wfail, logVars, ymVars, isUpdatingMode, updatingModeSlug>>

\* updateModesInFile(file, filter) of the running delete operation, for the
\* project file and then for the settings file, each read and written in one
\* step; a file the slug was not found in is left alone
deleteCustomMode_updateModesInFile ==
    /\ drain.stage \in {"deleteCustomMode.roomodes", "deleteCustomMode.settings"}
    /\ LET st == IF drain.stage = "deleteCustomMode.roomodes" THEN "pl" ELSE "gs"
           next == IF st = "pl" THEN "deleteCustomMode.settings" ELSE "refreshMergedState"
           slug == calls[drain.op.call].slug
           Others(m) == m.slug # slug
       IN  IF st \notin drain.op.found
           THEN /\ drain' = [drain EXCEPT !.stage = next]
                /\ UNCHANGED <<fs, isWriting, writeQueue, calls, resetTimers>>
           ELSE IF \/ fs[st].st = "shape"
                   \/ \E i \in 1..Len(fs[st].modes) : fs[st].modes[i].t = "null"
                   \/ wfail
           THEN /\ Becomes(processWriteQueue(Manager, TRUE))
                /\ UNCHANGED fs
           ELSE /\ fs' = [fs EXCEPT ![st] = LegacyOf(SelectSeq(EntriesAt(fs[st]), Others))]
                /\ drain' = [drain EXCEPT !.stage = next]
                /\ UNCHANGED <<isWriting, writeQueue, calls, resetTimers>>
    /\ UNCHANGED <<wfail, logVars, ymVars, isUpdatingMode, updatingModeSlug>>

\* resetCustomModes, up to the await of fileExistsAtPath in
\* getCustomModesFilePath
resetCustomModes(c) ==
    /\ c \in Calls
    /\ calls[c].pc = "idle"
    /\ \A d \in Calls : d < c => calls[d].pc # "idle"
    /\ calls' = [calls EXCEPT ![c] = [NoCall EXCEPT !.pc = "resetCustomModes.fileExistsAtPath",
                                                    !.fs0 = fs]]
    /\ UNCHANGED <<fs, wfail, logVars, ymVars, isWriting, writeQueue, isUpdatingMode,
                   updatingModeSlug, drain, resetTimers>>

\* fileExistsAtPath has returned: getCustomModesFilePath queues the creation
\* of a missing file, and the call goes on to its own writeFile
resetCustomModes_fileExistsAtPath(c) ==
    /\ c \in Calls
    /\ calls[c].pc = "resetCustomModes.fileExistsAtPath"
    /\ IF fs.gs.st # "absent"
       THEN Becomes([Manager EXCEPT !.calls[c].pc = "resetCustomModes.writeFile"])
       ELSE IF isWriting
       THEN Becomes([queueWrite(Manager, c, CreateOp(c), "done") EXCEPT
                         !.calls[c].pc = "resetCustomModes.writeFile"])
       ELSE Becomes(queueWrite(Manager, c, CreateOp(c),
                               "resetCustomModes.getCustomModesFilePath"))
    /\ UNCHANGED <<fs, wfail, logVars, ymVars, isUpdatingMode, updatingModeSlug>>

\* the writeFile of resetCustomModes has returned or been rejected
resetCustomModes_writeFile(c) ==
    /\ c \in Calls
    /\ calls[c].pc = "resetCustomModes.writeFile"
    /\ fs' = IF wfail THEN fs ELSE [fs EXCEPT !.gs = LegacyOf(<<>>)]
    /\ calls' = [calls EXCEPT ![c].pc = "done", ![c].err = wfail]
    /\ UNCHANGED <<wfail, logVars, ymVars, isWriting, writeQueue, isUpdatingMode,
                   updatingModeSlug, drain, resetTimers>>

\* the documents whose save the handlers of watchCustomModesFiles look at
SavedFiles == {FileA, FileB}

\* the listeners and watchers of a manager whose setup has ended with every
\* location in place
Registered ==
    [listeners |-> {"gs", "pl", "py", "gy"}, setup |-> "done", disposed |-> FALSE,
     watchers |-> {"py", "gy"}, yamlSetup |-> "done", yamlDisposed |-> FALSE]

\* the two managers when their constructors have returned: watchCustomModesFiles
\* stands at its first await, watchYamlModesFiles has created the project
\* watcher and awaits the mkdir of the global directory
Constructed ==
    [listeners |-> {}, setup |-> "getCustomModesFilePath", disposed |-> FALSE,
     watchers |-> {"py"}, yamlSetup |-> "mkdir", yamlDisposed |-> FALSE]

\* a step of a watcher setup that changes no file
SetupStep ==
    UNCHANGED <<fs, wfail, edits, lastOp, prevOp, ret, cmVars, ymVars, diVars>>

\* getCustomModesFilePath has returned (the settings file exists): the
\* listener of the settings file is pushed
watchCustomModesFiles_getCustomModesFilePath ==
    /\ disposables.setup = "getCustomModesFilePath"
    /\ fs.gs.st # "absent"
    /\ disposables' = [disposables EXCEPT !.listeners = @ \cup {"gs"},
                                          !.setup = "getWorkspaceRoomodes"]
    /\ SetupStep

\* getWorkspaceRoomodes has returned: the listener of <project>/.roomodes is
\* pushed if the file exists
watchCustomModesFiles_getWorkspaceRoomodes ==
    /\ disposables.setup = "getWorkspaceRoomodes"
    /\ disposables' = [disposables EXCEPT
                          !.listeners = IF fs.pl.st # "absent" THEN @ \cup {"pl"} ELSE @,
                          !.setup = "directoryExists.project"]
    /\ SetupStep

\* directoryExists(<project>/.roo/modes) has returned
watchCustomModesFiles_projectModesDir ==
    /\ disposables.setup = "directoryExists.project"
    /\ disposables' = [disposables EXCEPT
                          !.listeners = IF fs.py.exists THEN @ \cup {"py"} ELSE @,
                          !.setup = "directoryExists.global"]
    /\ SetupStep

\* directoryExists(<global>/modes) has returned, and the first refresh is made
watchCustomModesFiles_globalModesDir ==
    /\ disposables.setup = "directoryExists.global"
    /\ disposables' = [disposables EXCEPT
                          !.listeners = IF fs.gy.exists THEN @ \cup {"gy"} ELSE @,
                          !.setup = "refreshAllModes"]
    /\ SetupStep

\* the refresh at the end of watchCustomModesFiles has returned
watchCustomModesFiles_refreshAllModes ==
    /\ disposables.setup = "refreshAllModes"
    /\ disposables' = [disposables EXCEPT !.setup = "done"]
    /\ IF isUpdatingMode
       THEN UNCHANGED <<fs, lastOp, prevOp, ret>>
       ELSE /\ fs' = AfterLoadAllModes(fs, wfail)
            /\ lastOp' = "refreshAllModes"
            /\ prevOp' = lastOp
            /\ ret' = loadAllModes(fs)
    /\ UNCHANGED <<wfail, edits, cmVars, ymVars, diVars>>

\* CustomModesManager.dispose(): the listeners pushed so far are disposed
dispose ==
    /\ ~disposables.disposed
    /\ disposables' = [disposables EXCEPT !.listeners = {}, !.disposed = TRUE]
    /\ SetupStep

\* the mkdir of watchYamlModesFiles has returned or thrown: the watcher of the
\* global directory is created and pushed, or the error is logged
watchYamlModesFiles_mkdir ==
    /\ disposables.yamlSetup = "mkdir"
    /\ IF wfail /\ ~fs.gy.exists
       THEN /\ disposables' = [disposables EXCEPT !.yamlSetup = "done"]
            /\ UNCHANGED fs
       ELSE /\ disposables' = [disposables EXCEPT !.watchers = @ \cup {"gy"},
                                                  !.yamlSetup = "done"]
            /\ fs' = [fs EXCEPT !.gy.exists = TRUE]
    /\ UNCHANGED <<wfail, edits, lastOp, prevOp, ret, cmVars, ymVars, diVars>>

\* YamlModesManager.dispose() of the queueing manager
yamlDispose ==
    /\ ~disposables.yamlDisposed
    /\ disposables' = [disposables EXCEPT !.watchers = {}, !.yamlDisposed = TRUE]
    /\ SetupStep

\* <project>/.roomodes is saved in the editor: the listener of the file, if
\* one is in place, refreshes unless an update is in progress
onDidSaveTextDocument_roomodes ==
    /\ fs.pl.st # "absent"
    /\ IF "pl" \notin disposables.listeners
       THEN /\ watched' = [kind |-> "save", slug |-> Undefined, locked |-> FALSE,
                           reacted |-> FALSE]
            /\ UNCHANGED <<fs, lastOp, prevOp, ret>>
       ELSE IF isUpdatingMode
       THEN /\ watched' = [kind |-> "save", slug |-> Undefined, locked |-> TRUE,
                           reacted |-> FALSE]
            /\ UNCHANGED <<fs, lastOp, prevOp, ret>>
       ELSE /\ watched' = [kind |-> "save", slug |-> Undefined, locked |-> FALSE,
                           reacted |-> TRUE]
            /\ fs' = AfterLoadAllModes(fs, wfail)
            /\ lastOp' = "refreshAllModes"
            /\ prevOp' = lastOp
            /\ ret' = loadAllModes(fs)
    /\ UNCHANGED <<wfail, edits, diVars, disposables, cmVars, yamlIsWriting, yamlWriteQueue,
                   cachedModes, cachedAt, editLock, yamlCalls, yamlDrain, lockTimers,
                   gets, events, clock, cacheStale>>

\* a document under <project>/.roo/modes or <global>/modes is saved, and the
\* onDidSaveTextDocument handler of that directory calls refreshAllModes,
\* which returns at once while isUpdatingMode is set and otherwise loads all
\* modes, stores them and calls onUpdate
onDidSaveTextDocument ==
    \E dir \in YamlStores, file \in SavedFiles :
        LET slug == Basename(file, YamlExt)
        IN  /\ fs[dir].exists
            /\ EndsWith(file, YamlExt)
            /\ IF dir \notin disposables.listeners
               THEN /\ watched' = [kind |-> "save", slug |-> slug, locked |-> FALSE,
                                   reacted |-> FALSE]
                    /\ UNCHANGED <<fs, lastOp, prevOp, ret>>
               ELSE IF isUpdatingMode
               THEN /\ watched' = [kind |-> "save", slug |-> slug, locked |-> TRUE,
                                   reacted |-> FALSE]
                    /\ UNCHANGED <<fs, lastOp, prevOp, ret>>
               ELSE /\ watched' = [kind |-> "save", slug |-> slug, locked |-> FALSE,
                                   reacted |-> TRUE]
                    /\ fs' = AfterLoadAllModes(fs, wfail)
                    /\ lastOp' = "refreshAllModes"
                    /\ prevOp' = lastOp
                    /\ ret' = loadAllModes(fs)
            /\ UNCHANGED <<wfail, edits, diVars, disposables, cmVars, yamlIsWriting, yamlWriteQueue,
                           cachedModes, cachedAt, editLock, yamlCalls, yamlDrain, lockTimers,
                           gets, events, clock, cacheStale>>

\* the timer set by updateCustomMode's finally block
resetUpdatingMode ==
    /\ resetTimers > 0
    /\ resetTimers' = resetTimers - 1
    /\ isUpdatingMode' = FALSE
    /\ updatingModeSlug' = Undefined
    /\ UNCHANGED <<fs, wfail, logVars, ymVars, isWriting, writeQueue, calls,
                   drain>>

----------------------------------------------------------------------------
(* YamlModesManager (the manager with the write queue, the edit lock and   *)
(* the timed cache) and utils/yamlUtils                                    *)

MaxYamlCalls == 2
YamlGets == 1
MaxYamlEdits == 1
MaxGets == 2
CacheCalls == 1
CacheEdits == 1
LockCalls == 1
LockEdits == 1
MaxClock == 2

\* the calls of a behaviour
YamlCalls == DOMAIN yamlCalls
Gets == DOMAIN gets
YamlCallIds == 1..MaxYamlCalls
GetIds == 1..MaxGets

\* YamlModesManager.cacheTTL (10 s), the unit of clock
cacheTTL == 1

\* position of the last "." of a file name, 0 when it has none
RECURSIVE LastDot(_, _)
LastDot(file, i) ==
    IF i = 0 THEN 0 ELSE IF file[i] = "." THEN i ELSE LastDot(file, i - 1)

\* path.parse(fileName).name
ParsedName(file) ==
    LET dot == LastDot(file, Len(file))
    IN  IF dot > 1 THEN SubSeq(file, 1, dot - 1) ELSE file

\* String.prototype.trim on a string, undefined when the string is
RECURSIVE Trim(_)
Trim(s) ==
    IF s = Undefined \/ s = <<>> THEN s
    ELSE IF Head(s) = " " THEN Trim(Tail(s))
    ELSE IF s[Len(s)] = " " THEN Trim(SubSeq(s, 1, Len(s) - 1))
    ELSE s

\* the input schema of schemas/index: the split format, groups as a mapping
modeConfigInputSchema(c) == modeConfigInputSchemaV2(c)

\* the groups array as the mapping of group name to options or null
convertGroupsArrayToObject(items) == NewModeGroups(items, 1, <<>>)

\* the loop of loadModesFromDirectory over the directory's files, with
\* loadModeFromYamlFile for each
RECURSIVE DirectoryLoop(_, _, _, _)
DirectoryLoop(dir, source, i, modes) ==
    IF i > Len(FileOrder) THEN modes
    ELSE LET file == FileOrder[i]
             c == dir.files[file]
             slug == ParsedName(file)
             loaded ==
                 /\ c.st # "absent"
                 /\ (EndsWith(file, YamlExt) \/ EndsWith(file, YmlExt))
                 /\ SlugPattern(slug)
                 /\ c.st = "ok"
                 /\ modeConfigInputSchema(c)
         IN  DirectoryLoop(dir, source, i + 1,
                           IF loaded
                           THEN Append(modes,
                                       [slug |-> slug, name |-> c.name,
                                        roleDefinition |-> c.roleDefinition,
                                        customInstructions |-> c.customInstructions,
                                        groups |-> c.groups.items, source |-> source])
                           ELSE modes)

\* a loader that a file which cannot be read or parsed leaves without a result
loadModesFromDirectory_rethrow(dir, source) ==
    IF \/ ~dir.exists
       \/ \E file \in FileNames : dir.files[file].st \in {"unreadable", "syntax", "scalar"}
    THEN <<>>
    ELSE DirectoryLoop(dir, source, 1, <<>>)

loadModesFromDirectory(dir, source) ==
    IF ~dir.exists THEN <<>> ELSE DirectoryLoop(dir, source, 1, <<>>)

\* getYamlModes' merge: the project's modes, then the global modes whose slug
\* the project does not hold
MergedModes(projectModes, globalModes) ==
    LET Unshadowed(mode) == ~MapHas(projectModes, mode.slug)
    IN  MapSetAll(<<>>, projectModes, 1)
            \o MapSetAll(<<>>, SelectSeq(globalModes, Unshadowed), 1)

\* the directory after saveModeAsYaml(dir, mode), when the write is not rejected
saveModeAsYaml(dir, mode) ==
    [exists |-> TRUE,
     files |-> [dir.files EXCEPT ![mode.slug \o YamlExt] =
                  YamlDocument(
                      [name |-> mode.name,
                       roleDefinition |-> IF Truthy(Trim(mode.roleDefinition))
                                          THEN Trim(mode.roleDefinition) ELSE <<>>,
                       customInstructions |-> Trim(mode.customInstructions),
                       groups |-> convertGroupsArrayToObject(mode.groups.items)])]]

NoModes == [some |-> FALSE, modes |-> <<>>]
Cached(modes) == [some |-> TRUE, modes |-> modes]

DirOf(source) == IF source = "project" THEN "py" ELSE "gy"

\* a call of updateYamlMode or deleteYamlMode: pc is the await it stands at;
\* err: an error message was shown for it
NoYamlCall ==
    [pc |-> "idle", kind |-> "none", slug |-> Undefined,
     config |-> ConfigOf(Undefined, "undefined"), err |-> FALSE]
IdleYamlDrain == [owner |-> 0, op |-> 0, thrown |-> FALSE]

\* a getYamlModes call: now and globalModes are its locals, modes what it
\* returned; hit: it returned the cache; stale: what it has read or returned
\* is older than an invalidation
NoGet ==
    [pc |-> "idle", now |-> 0, globalModes |-> <<>>, modes |-> <<>>, hit |-> FALSE,
     stale |-> FALSE]

NothingWatched == [kind |-> "none", slug |-> Undefined, locked |-> FALSE, reacted |-> FALSE]

Event(kind, dir, file) == [kind |-> kind, dir |-> dir, file |-> file]

\* the notification that follows a write of dir/file
WriteEvent(f, dir, file) ==
    Event(IF f[dir].files[file].st = "absent" THEN "create" ELSE "change", dir, file)

InitYamlManager(nCalls, nGets) ==
    /\ yamlIsWriting = FALSE
    /\ yamlWriteQueue = <<>>
    /\ cachedModes = NoModes
    /\ cachedAt = 0
    /\ editLock = {}
    /\ yamlCalls = [c \in 1..nCalls |-> NoYamlCall]
    /\ yamlDrain = IdleYamlDrain
    /\ lockTimers = {}
    /\ gets = [g \in 1..nGets |-> NoGet]
    /\ events = {}
    /\ clock = 1
    /\ watched = NothingWatched
    /\ cacheStale = FALSE

\* the scans that have read a directory by now hold a read older than the
\* invalidation being made
Overtaken(gs) ==
    [g \in Gets |-> IF gs[g].pc = "projectModes" THEN [gs[g] EXCEPT !.stale = TRUE]
                    ELSE gs[g]]

clearCache ==
    /\ cachedModes' = NoModes
    /\ cachedAt' = 0
    /\ cacheStale' = FALSE
    /\ gets' = Overtaken(gets)

\* delays of the two timers of updateYamlMode, in milliseconds
lockTimeoutMs == 5000
releaseDelayMs == 500

Timer(c, slug, ms) == [call |-> c, slug |-> slug, ms |-> ms]

\* an end of updateYamlMode that sets no timer
updateYamlMode_finally_noRelease(timers, c, slug, thrown) ==
    IF thrown THEN timers ELSE timers \ {Timer(c, slug, lockTimeoutMs)}

\* the pending timers after updateYamlMode's queueWrite has returned or
\* thrown: clearTimeout(lockTimeout) on success, the release timer in finally
updateYamlMode_finally(timers, c, slug, thrown) ==
    (IF thrown THEN timers ELSE timers \ {Timer(c, slug, lockTimeoutMs)})
        \cup {Timer(c, slug, releaseDelayMs)}

\* the call, up to its first await: inside the operation it has queued when
\* no operation is running, at its end otherwise
updateYamlMode(c) ==
    \E slug \in CallSlugs, source \in CallSources :
        LET queued == Append(yamlWriteQueue, c)
            started == lockTimers \cup {Timer(c, slug, lockTimeoutMs)}
            call == [NoYamlCall EXCEPT !.kind = "update", !.slug = slug,
                                       !.config = ConfigOf(slug, source)]
        IN  /\ c \in YamlCalls
            /\ yamlCalls[c].pc = "idle"
            /\ \A d \in YamlCalls : d < c => yamlCalls[d].pc # "idle"
            /\ editLock' = editLock \cup {slug}
            /\ IF yamlIsWriting
               THEN /\ yamlWriteQueue' = queued
                    /\ lockTimers' = updateYamlMode_finally(started, c, slug, FALSE)
                    /\ yamlCalls' = [yamlCalls EXCEPT ![c] = [call EXCEPT !.pc = "done"]]
                    /\ UNCHANGED <<yamlIsWriting, yamlDrain>>
               ELSE /\ yamlWriteQueue' = Tail(queued)
                    /\ yamlIsWriting' = TRUE
                    /\ yamlDrain' = [owner |-> c, op |-> Head(queued), thrown |-> FALSE]
                    /\ lockTimers' = started
                    /\ yamlCalls' = [yamlCalls EXCEPT
                                        ![c] = [call EXCEPT !.pc = "processWriteQueue"]]
            /\ UNCHANGED <<fs, wfail, logVars, cmVars, cachedModes, cachedAt, gets, events,
                           clock, watched, cacheStale>>

\* the operation processWriteQueue awaits has returned or thrown: the file is
\* written, the cache cleared and onUpdate called, or the write is rejected;
\* then processWriteQueue's finally block, and at the end of the chain the
\* rest of the updateYamlMode call that started it
updateYamlMode_operation ==
    /\ yamlIsWriting
    /\ yamlCalls[yamlDrain.op].kind = "update"
    /\ LET c == yamlDrain.op
           owner == yamlDrain.owner
           slug == yamlCalls[c].slug
           source == IF yamlCalls[c].config.source = "project" THEN "project" ELSE "global"
           modeConfig == [yamlCalls[c].config EXCEPT !.slug = slug, !.source = source]
           dir == DirOf(source)
           thrown == yamlDrain.thrown \/ wfail
       IN  /\ IF wfail
              THEN UNCHANGED <<fs, events, cachedModes, cachedAt, cacheStale, gets>>
              ELSE /\ fs' = [fs EXCEPT ![dir] = saveModeAsYaml(fs[dir], modeConfig)]
                   /\ events' = events \cup {WriteEvent(fs, dir, slug \o YamlExt)}
                   /\ clearCache
           /\ IF yamlWriteQueue # <<>>
              THEN /\ yamlWriteQueue' = Tail(yamlWriteQueue)
                   /\ yamlDrain' = [owner |-> owner, op |-> Head(yamlWriteQueue),
                                    thrown |-> thrown]
                   /\ UNCHANGED <<yamlIsWriting, yamlCalls, lockTimers>>
              ELSE /\ yamlIsWriting' = FALSE
                   /\ yamlDrain' = IdleYamlDrain
                   /\ yamlCalls' = [yamlCalls EXCEPT ![owner].pc = "done",
                                                     ![owner].err = thrown]
                   /\ lockTimers' = IF yamlCalls[owner].kind = "update"
                                    THEN updateYamlMode_finally(lockTimers, owner,
                                                                yamlCalls[owner].slug, thrown)
                                    ELSE lockTimers
                   /\ UNCHANGED yamlWriteQueue
    /\ UNCHANGED <<wfail, logVars, cmVars, editLock, clock, watched>>

\* deleteYamlMode, up to its await of fileExistsAtPath
deleteYamlMode(c) ==
    \E slug \in CallSlugs, source \in CallSources :
        /\ c \in YamlCalls
        /\ yamlCalls[c].pc = "idle"
        /\ \A d \in YamlCalls : d < c => yamlCalls[d].pc # "idle"
        /\ yamlCalls' = [yamlCalls EXCEPT ![c] =
                            [NoYamlCall EXCEPT !.pc = "fileExistsAtPath", !.kind = "delete",
                                               !.slug = slug,
                                               !.config = ConfigOf(slug, source)]]
        /\ UNCHANGED <<fs, wfail, logVars, cmVars, yamlIsWriting, yamlWriteQueue,
                       cachedModes, cachedAt, editLock, yamlDrain, lockTimers, gets, events,
                       clock, watched, cacheStale>>

\* fileExistsAtPath has returned: a missing file is thrown as an error, which
\* the catch shows; for a file that exists the unlink is queued
deleteYamlMode_fileExistsAtPath(c) ==
    /\ c \in YamlCalls
    /\ yamlCalls[c].pc = "fileExistsAtPath"
    /\ LET dir == DirOf(yamlCalls[c].config.source)
           exists == fs[dir].files[yamlCalls[c].slug \o YamlExt].st # "absent"
           queued == Append(yamlWriteQueue, c)
       IN  IF ~exists
           THEN /\ yamlCalls' = [yamlCalls EXCEPT ![c].pc = "done", ![c].err = TRUE]
                /\ UNCHANGED <<yamlIsWriting, yamlWriteQueue, yamlDrain>>
           ELSE IF yamlIsWriting
           THEN /\ yamlWriteQueue' = queued
                /\ yamlCalls' = [yamlCalls EXCEPT ![c].pc = "done"]
                /\ UNCHANGED <<yamlIsWriting, yamlDrain>>
           ELSE /\ yamlWriteQueue' = Tail(queued)
                /\ yamlIsWriting' = TRUE
                /\ yamlDrain' = [owner |-> c, op |-> Head(queued), thrown |-> FALSE]
                /\ yamlCalls' = [yamlCalls EXCEPT ![c].pc = "processWriteQueue"]
    /\ UNCHANGED <<fs, wfail, logVars, cmVars, cachedModes, cachedAt, editLock, lockTimers,
                   gets, events, clock, watched, cacheStale>>

\* the unlink operation processWriteQueue awaits has returned or thrown: the
\* file is removed, the cache cleared and onUpdate called, or unlink is
\* rejected or finds no file; then processWriteQueue's finally block, and at
\* the end of the chain the rest of the call that started it
deleteYamlMode_operation ==
    /\ yamlIsWriting
    /\ yamlCalls[yamlDrain.op].kind = "delete"
    /\ LET c == yamlDrain.op
           owner == yamlDrain.owner
           dir == DirOf(yamlCalls[c].config.source)
           file == yamlCalls[c].slug \o YamlExt
           rejected == wfail \/ fs[dir].files[file].st = "absent"
           thrown == yamlDrain.thrown \/ rejected
       IN  /\ IF rejected
              THEN UNCHANGED <<fs, events, cachedModes, cachedAt, cacheStale, gets>>
              ELSE /\ fs' = [fs EXCEPT ![dir].files[file] = NoFile]
                   /\ events' = events \cup {Event("delete", dir, file)}
                   /\ clearCache
           /\ IF yamlWriteQueue # <<>>
              THEN /\ yamlWriteQueue' = Tail(yamlWriteQueue)
                   /\ yamlDrain' = [owner |-> owner, op |-> Head(yamlWriteQueue),
                                    thrown |-> thrown]
                   /\ UNCHANGED <<yamlIsWriting, yamlCalls, lockTimers>>
              ELSE /\ yamlIsWriting' = FALSE
                   /\ yamlDrain' = IdleYamlDrain
                   /\ yamlCalls' = [yamlCalls EXCEPT ![owner].pc = "done",
                                                     ![owner].err = thrown]
                   /\ lockTimers' = IF yamlCalls[owner].kind = "update"
                                    THEN updateYamlMode_finally(lockTimers, owner,
                                                                yamlCalls[owner].slug, thrown)
                                    ELSE lockTimers
                   /\ UNCHANGED yamlWriteQueue
    /\ UNCHANGED <<wfail, logVars, cmVars, editLock, clock, watched>>

\* one of the timers of updateYamlMode fires
releaseEditLock ==
    \E t \in lockTimers :
        /\ editLock' = editLock \ {t.slug}
        /\ lockTimers' = lockTimers \ {t}
        /\ UNCHANGED <<fs, wfail, logVars, cmVars, yamlIsWriting, yamlWriteQueue,
                       cachedModes, cachedAt, yamlCalls, yamlDrain, gets, events, clock,
                       watched, cacheStale>>

\* the call, up to its return of the cache or to its await of the global modes
getYamlModes(g) ==
    /\ g \in Gets
    /\ gets[g].pc = "idle"
    /\ \A d \in Gets : d < g => gets[d].pc # "idle"
    /\ gets' = [gets EXCEPT ![g] =
                  IF cachedModes.some /\ clock - cachedAt < cacheTTL
                  THEN [NoGet EXCEPT !.pc = "done",
                                     !.modes = cachedModes.modes, !.hit = TRUE,
                                     !.stale = cacheStale]
                  ELSE [NoGet EXCEPT !.pc = "globalModes", !.now = clock]]
    /\ UNCHANGED <<fs, wfail, logVars, cmVars, yamlIsWriting, yamlWriteQueue, cachedModes,
                   cachedAt, editLock, yamlCalls, yamlDrain, lockTimers, events, clock,
                   watched, cacheStale>>

\* loadModesFromDirectory(<global>/modes) has returned
getYamlModes_globalModes(g) ==
    /\ g \in Gets
    /\ gets[g].pc = "globalModes"
    /\ gets' = [gets EXCEPT ![g].pc = "projectModes",
                            ![g].globalModes = loadModesFromDirectory(fs.gy, "global")]
    /\ UNCHANGED <<fs, wfail, logVars, cmVars, yamlIsWriting, yamlWriteQueue, cachedModes,
                   cachedAt, editLock, yamlCalls, yamlDrain, lockTimers, events, clock,
                   watched, cacheStale>>

\* a scan end that stamps the cache with the time at which the scan ends
getYamlModes_projectModes_stampAtEnd(g) ==
    /\ g \in Gets
    /\ gets[g].pc = "projectModes"
    /\ LET mergedModes == MergedModes(loadModesFromDirectory(fs.py, "project"),
                                      gets[g].globalModes)
       IN  /\ cachedModes' = Cached(mergedModes)
           /\ cachedAt' = clock
           /\ cacheStale' = gets[g].stale
           /\ gets' = [gets EXCEPT ![g] = [NoGet EXCEPT !.pc = "done",
                                                      !.modes = mergedModes,
                                                      !.stale = gets[g].stale]]
    /\ UNCHANGED <<fs, wfail, logVars, cmVars, yamlIsWriting, yamlWriteQueue, editLock,
                   yamlCalls, yamlDrain, lockTimers, events, clock, watched>>

\* loadModesFromDirectory(<project>/.roo/modes) has returned: the merge is
\* cached with the time the call started at, and returned
getYamlModes_projectModes(g) ==
    /\ g \in Gets
    /\ gets[g].pc = "projectModes"
    /\ LET mergedModes == MergedModes(loadModesFromDirectory(fs.py, "project"),
                                      gets[g].globalModes)
       IN  /\ cachedModes' = Cached(mergedModes)
           /\ cachedAt' = gets[g].now
           /\ cacheStale' = gets[g].stale
           /\ gets' = [gets EXCEPT ![g] = [NoGet EXCEPT !.pc = "done",
                                                      !.modes = mergedModes,
                                                      !.stale = gets[g].stale]]
    /\ UNCHANGED <<fs, wfail, logVars, cmVars, yamlIsWriting, yamlWriteQueue, editLock,
                   yamlCalls, yamlDrain, lockTimers, events, clock, watched>>

Handled(e) ==
    /\ e \in events
    /\ e.dir \in disposables.watchers
    /\ events' = events \ {e}
    /\ UNCHANGED <<fs, wfail, logVars, cmVars, yamlIsWriting, yamlWriteQueue, editLock,
                   yamlCalls, yamlDrain, lockTimers, clock>>

\* the change handler of either watcher
onDidChange ==
    \E e \in events :
        LET slug == ParsedName(e.file)
        IN  /\ e.kind = "change"
            /\ Handled(e)
            /\ IF slug \in editLock
               THEN /\ watched' = [kind |-> "change", slug |-> slug, locked |-> TRUE,
                                   reacted |-> FALSE]
                    /\ UNCHANGED <<cachedModes, cachedAt, cacheStale, gets>>
               ELSE /\ watched' = [kind |-> "change", slug |-> slug, locked |-> FALSE,
                                   reacted |-> TRUE]
                    /\ clearCache

\* the create handler of either watcher
onDidCreate ==
    \E e \in events :
        LET slug == ParsedName(e.file)
        IN  /\ e.kind = "create"
            /\ Handled(e)
            /\ watched' = [kind |-> "create", slug |-> slug, locked |-> slug \in editLock,
                           reacted |-> TRUE]
            /\ clearCache

\* the delete handler of either watcher
onDidDelete ==
    \E e \in events :
        LET slug == ParsedName(e.file)
        IN  /\ e.kind = "delete"
            /\ Handled(e)
            /\ watched' = [kind |-> "delete", slug |-> slug, locked |-> slug \in editLock,
                           reacted |-> TRUE]
            /\ clearCache

\* a mode file written or removed from outside the program, and time passing
WatchedFiles == {FileA}

EnvWriteYaml ==
    \E dir \in YamlStores, file \in WatchedFiles :
        /\ edits > 0
        /\ edits' = edits - 1
        /\ fs' = [fs EXCEPT ![dir] = [exists |-> TRUE,
                                      files |-> [fs[dir].files EXCEPT ![file] = YamlDocOne]]]
        /\ events' = events \cup {WriteEvent(fs, dir, file)}
        /\ UNCHANGED <<wfail, lastOp, prevOp, ret, cmVars, diVars, disposables, yamlIsWriting, yamlWriteQueue,
                       cachedModes, cachedAt, editLock, yamlCalls, yamlDrain, lockTimers,
                       gets, clock, watched, cacheStale>>

EnvUnlinkYaml ==
    \E dir \in YamlStores, file \in WatchedFiles :
        /\ edits > 0
        /\ fs[dir].files[file].st # "absent"
        /\ edits' = edits - 1
        /\ fs' = [fs EXCEPT ![dir].files[file] = NoFile]
        /\ events' = events \cup {Event("delete", dir, file)}
        /\ UNCHANGED <<wfail, lastOp, prevOp, ret, cmVars, diVars, disposables, yamlIsWriting, yamlWriteQueue,
                       cachedModes, cachedAt, editLock, yamlCalls, yamlDrain, lockTimers,
                       gets, clock, watched, cacheStale>>

Tick ==
    /\ clock < MaxClock
    /\ clock' = clock + 1
    /\ UNCHANGED <<fs, wfail, logVars, cmVars, yamlIsWriting, yamlWriteQueue, cachedModes,
                   cachedAt, editLock, yamlCalls, yamlDrain, lockTimers, gets, events,
                   watched, cacheStale>>

----------------------------------------------------------------------------
(* YamlModesManager of core/config/YamlModesManager.ts: the manager with   *)
(* the injected file system. It scans <project>/.roo/modes only.           *)

ttl == 1

\* the pending getModes: now is its local, after the operation it was called after
NoScan == [pc |-> "idle", now |-> 0, after |-> "none"]
NoWrite == [kind |-> "none", slug |-> Undefined, source |-> "undefined", err |-> FALSE]

InitYamlModesManager ==
    /\ cache = NoModes
    /\ stamp = 0
    /\ scan = NoScan
    /\ written = NoWrite

\* walk(dir, bucket, source) over the files of dir: a file that cannot be
\* read or parsed is ignored, a document is pushed when it declares a slug
RECURSIVE walk(_, _, _, _)
walk(dir, bucket, source, i) ==
    IF i > Len(FileOrder) THEN bucket
    ELSE LET file == FileOrder[i]
             mode == dir.files[file]
             pushed ==
                 /\ mode.st # "absent"
                 /\ (EndsWith(file, YamlExt) \/ EndsWith(file, YmlExt))
                 /\ mode.st = "ok"
                 /\ Truthy(mode.slug)
         IN  With(IF pushed
                  THEN Append(bucket, [slug |-> mode.slug, name |-> mode.name,
                                       roleDefinition |-> mode.roleDefinition,
                                       customInstructions |-> mode.customInstructions,
                                       groups |-> mode.groups.items, source |-> source])
                  ELSE bucket,
                  LAMBDA next : walk(dir, next, source, i + 1))

scanModes(f) == IF ~f.py.exists THEN <<>> ELSE walk(f.py, <<>>, "project", 1)

\* fs after scanModes: mkdir of <project>/.roo/modes, whose failure is ignored
AfterScanModes(f, fail) ==
    IF ~f.py.exists /\ ~fail THEN [f EXCEPT !.py.exists = TRUE] ELSE f

\* the directory and the file name of getSingleYamlPath(slug, source)
getSingleYamlPath(slug, source) ==
    [dir |-> IF source = "project" THEN "py" ELSE "gm",
     file |-> slug \o <<".", "m", "o", "d", "e">> \o YamlExt]

\* dumpYaml({...config, slug}) as the document it parses back to
dumpYaml(config, slug) ==
    [st |-> "ok", slug |-> slug, name |-> config.name,
     roleDefinition |-> config.roleDefinition,
     customInstructions |-> config.customInstructions, groups |-> config.groups]

Done(op) ==
    /\ lastOp' = op
    /\ prevOp' = lastOp
    /\ UNCHANGED <<wfail, edits, cmVars, ymVars, disposables>>

\* getYamlModes, up to its return of the cache or to its await of scanModes
YamlModesManager_getYamlModes ==
    /\ scan.pc = "idle"
    /\ IF cache.some /\ clock - stamp < ttl
       THEN /\ ret' = cache.modes
            /\ Done("YamlModesManager.getYamlModes")
            /\ UNCHANGED <<fs, diVars>>
       ELSE /\ scan' = [pc |-> "scanModes", now |-> clock, after |-> lastOp]
            /\ UNCHANGED <<fs, wfail, edits, lastOp, prevOp, ret, cmVars, ymVars,
                           cache, stamp, written, disposables>>

\* scanModes has returned: the scan is cached with the time the call started
\* at, and returned
getModes_scanModes ==
    /\ scan.pc = "scanModes"
    /\ fs' = AfterScanModes(fs, wfail)
    /\ cache' = Cached(scanModes(fs))
    /\ stamp' = scan.now
    /\ scan' = NoScan
    /\ ret' = scanModes(fs)
    /\ Done("YamlModesManager.getYamlModes")
    /\ UNCHANGED written

\* updateYamlMode: mkdir and writeFile, whose rejection rejects the call, then
\* invalidate() and onUpdate()
YamlModesManager_updateYamlMode ==
    \E slug \in CallSlugs, source \in CallSources :
        LET path == getSingleYamlPath(slug, source)
        IN  /\ IF wfail
               THEN UNCHANGED <<fs, cache>>
               ELSE /\ fs' = [fs EXCEPT ![path.dir] =
                                [exists |-> TRUE,
                                 files |-> [fs[path.dir].files EXCEPT ![path.file] =
                                              dumpYaml(ConfigOf(slug, source), slug)]]]
                    /\ cache' = NoModes
            /\ written' = [kind |-> "update", slug |-> slug, source |-> source,
                           err |-> wfail]
            /\ ret' = <<>>
            /\ Done("YamlModesManager.updateYamlMode")
            /\ UNCHANGED <<stamp, scan>>

\* deleteYamlMode: unlink, whose failure is ignored, then invalidate() and
\* onUpdate()
YamlModesManager_deleteYamlMode ==
    \E slug \in CallSlugs, source \in CallSources :
        LET path == getSingleYamlPath(slug, source)
        IN  /\ fs' = IF wfail THEN fs ELSE [fs EXCEPT ![path.dir].files[path.file] = NoFile]
            /\ cache' = NoModes
            /\ written' = [kind |-> "delete", slug |-> slug, source |-> source,
                           err |-> FALSE]
            /\ ret' = <<>>
            /\ Done("YamlModesManager.deleteYamlMode")
            /\ UNCHANGED <<stamp, scan>>

----------------------------------------------------------------------------
(* Specification of the stores, the merge and the migration *)

\* each store starts missing or holding one record with slug a
SeedYaml(doc) == {NoDir, [EmptyDir EXCEPT !.files[FileA] = doc]}
SeedLegacy(entry) == {NoLegacy, LegacyOf(<<entry>>)}

InitStores ==
    /\ fs \in [py : SeedYaml(YamlDocOne), pl : SeedLegacy(BodyTwo(SlugA)),
               gy : SeedYaml(YamlDocTwo), gl : SeedLegacy(BodyOne(SlugA)),
               gs : {NoLegacy}, gm : {NoDir}]
    /\ wfail = FALSE
    /\ edits = MaxEnvEdits
    /\ lastOp = "init"
    /\ prevOp = "init"
    /\ ret = <<>>
    /\ InitManager(0)
    /\ InitYamlModesManager
    /\ disposables = Registered
    /\ InitYamlManager(0, 0)

NextStores ==
    \/ getCustomModes
    \/ migrateRoomodes
    \/ EnvPutYaml
    \/ EnvPutLegacy
    \/ EnvBreakLegacy
    \/ EnvWriteFailure

SpecStores == InitStores /\ [][NextStores]_vars

----------------------------------------------------------------------------
(* Specification of the stores under faults: files that cannot be read or  *)
(* parsed, records with invalid bodies, files with the alias extension     *)

FaultEdits == 2

InitFaults ==
    /\ fs \in [py : SeedYaml(YamlDocOne), pl : SeedLegacy(BodyTwo(SlugA)),
               gy : SeedYaml(YamlDocTwo), gl : SeedLegacy(BodyOne(SlugA)),
               gs : {NoLegacy}, gm : {NoDir}]
    /\ wfail = FALSE
    /\ edits = FaultEdits
    /\ lastOp = "init"
    /\ prevOp = "init"
    /\ ret = <<>>
    /\ InitManager(0)
    /\ InitYamlModesManager
    /\ disposables = Registered
    /\ InitYamlManager(0, 0)

NextFaults ==
    \/ getCustomModes
    \/ EnvFaultYaml
    \/ EnvFaultLegacy

SpecFaults == InitFaults /\ [][NextFaults]_vars

----------------------------------------------------------------------------
(* Specification of the readers of the split format: getCustomModes and    *)
(* the getYamlModes of both YamlModesManagers, over directories whose      *)
(* files are written well formed or broken from outside                    *)

ScanEdits == 1
ScanGets == 1

InitScan ==
    /\ fs \in [py : SeedYaml(YamlDocTwo), pl : {NoLegacy},
               gy : {[EmptyDir EXCEPT !.files[FileA] = YamlDocOne]},
               gl : {NoLegacy}, gs : {NoLegacy}, gm : {NoDir}]
    /\ wfail = FALSE
    /\ edits = ScanEdits
    /\ lastOp = "init"
    /\ prevOp = "init"
    /\ ret = <<>>
    /\ InitManager(0)
    /\ InitYamlModesManager
    /\ disposables = Registered
    /\ InitYamlManager(0, ScanGets)

NextScan ==
    \/ getCustomModes
    \/ \E g \in GetIds : getYamlModes(g)
    \/ \E g \in GetIds : getYamlModes_globalModes(g)
    \/ \E g \in GetIds : getYamlModes_projectModes(g)
    \/ YamlModesManager_getYamlModes
    \/ getModes_scanModes
    \/ EnvPutYaml
    \/ EnvFaultYaml

SpecScan == InitScan /\ [][NextScan]_vars

----------------------------------------------------------------------------
(* Specification of updateCustomMode: up to MaxUpdateCalls calls, made at  *)
(* any time, over stores that hold slugs a and b in several places         *)

InitUpdate ==
    /\ fs \in [py : SeedYaml(YamlDocOne),
               pl : {NoLegacy, LegacyOf(<<BodyTwo(SlugA), BodyTwo(SlugB)>>)},
               gy : SeedYaml(YamlDocTwo), gl : SeedLegacy(BodyOne(SlugA)),
               gs : {NoLegacy, LegacyOf(<<BodyOne(SlugB)>>)}, gm : {NoDir}]
    /\ wfail = FALSE
    /\ edits = MaxEnvEdits
    /\ lastOp = "init"
    /\ prevOp = "init"
    /\ ret = <<>>
    /\ InitManager(MaxUpdateCalls)
    /\ InitYamlModesManager
    /\ disposables = Registered
    /\ InitYamlManager(0, 0)

NextUpdate ==
    \/ \E c \in CallIds : updateCustomMode(c)
    \/ \E c \in CallIds : updateCustomMode_existingMode(c)
    \/ \E c \in CallIds : updateCustomMode_refreshMergedState(c)
    \/ \E c \in CallIds : updateCustomMode_fileExistsAtPath(c)
    \/ updateModesInFile_readFile
    \/ updateModesInFile_writeFile
    \/ refreshMergedState
    \/ resetUpdatingMode
    \/ EnvWriteFailure

SpecUpdate == InitUpdate /\ [][NextUpdate]_vars

----------------------------------------------------------------------------
(* Specifications of YamlModesManager: its updates, the watchers and the   *)
(* timers of the edit lock, with a mode file also written or removed from  *)
(* outside; and its reads and cache, with time passing                     *)

InitYamlStores ==
    /\ fs \in [py : SeedYaml(YamlDocOne), pl : {NoLegacy},
               gy : {[EmptyDir EXCEPT !.files[FileA] = YamlDocTwo]},
               gl : {NoLegacy}, gs : {NoLegacy}, gm : {NoDir}]
    /\ wfail = FALSE
    /\ lastOp = "init"
    /\ prevOp = "init"
    /\ ret = <<>>
    /\ InitManager(0)

InitYaml ==
    /\ InitYamlStores
    /\ edits = MaxYamlEdits
    /\ InitYamlModesManager
    /\ disposables = Registered
    /\ InitYamlManager(MaxYamlCalls, YamlGets)

NextYaml ==
    \/ \E c \in YamlCallIds : updateYamlMode(c)
    \/ updateYamlMode_operation
    \/ releaseEditLock
    \/ \E g \in GetIds : getYamlModes(g)
    \/ \E g \in GetIds : getYamlModes_globalModes(g)
    \/ \E g \in GetIds : getYamlModes_projectModes(g)
    \/ onDidChange
    \/ onDidCreate
    \/ onDidDelete
    \/ EnvWriteYaml
    \/ EnvUnlinkYaml
    \/ EnvWriteFailure

SpecYaml == InitYaml /\ [][NextYaml]_vars

InitCache ==
    /\ InitYamlStores
    /\ edits = CacheEdits
    /\ InitYamlModesManager
    /\ disposables = Registered
    /\ InitYamlManager(CacheCalls, MaxGets)

NextCache ==
    \/ NextYaml
    \/ Tick

SpecCache == InitCache /\ [][NextCache]_vars

----------------------------------------------------------------------------
(* Specification of the YamlModesManager with the injected file system:    *)
(* its writes, deletions and reads, with writes that may be rejected       *)

InjectedEdits == 2

InitInjected ==
    /\ InitYamlStores
    /\ edits = InjectedEdits
    /\ InitYamlModesManager
    /\ disposables = Registered
    /\ InitYamlManager(0, 0)

NextInjected ==
    \/ YamlModesManager_getYamlModes
    \/ getModes_scanModes
    \/ YamlModesManager_updateYamlMode
    \/ YamlModesManager_deleteYamlMode
    \/ EnvWriteFailure

SpecInjected == InitInjected /\ [][NextInjected]_vars

----------------------------------------------------------------------------
(* Specification of the deletions: deleteYamlMode of both managers, next   *)
(* to updateYamlMode calls, with files also removed from outside           *)

DeleteCalls == 2
DeleteEdits == 1

InitDelete ==
    /\ InitYamlStores
    /\ edits = DeleteEdits
    /\ InitYamlModesManager
    /\ disposables = Registered
    /\ InitYamlManager(DeleteCalls, 0)

NextDelete ==
    \/ \E c \in YamlCallIds : deleteYamlMode(c)
    \/ \E c \in YamlCallIds : deleteYamlMode_fileExistsAtPath(c)
    \/ deleteYamlMode_operation
    \/ \E c \in YamlCallIds : updateYamlMode(c)
    \/ updateYamlMode_operation
    \/ releaseEditLock
    \/ onDidChange
    \/ onDidCreate
    \/ onDidDelete
    \/ YamlModesManager_deleteYamlMode
    \/ EnvUnlinkYaml
    \/ EnvWriteFailure

SpecDelete == InitDelete /\ [][NextDelete]_vars

----------------------------------------------------------------------------
(* Specification of the two write queues: updateCustomMode calls on        *)
(* CustomModesManager, or updateYamlMode and deleteYamlMode calls on       *)
(* YamlModesManager, made at any time, with writes that may be rejected    *)

QueueCalls == 3
QueueYamlCalls == 3
QueueEdits == 1

InitQueues ==
    /\ fs \in [py : {[EmptyDir EXCEPT !.files[FileA] = YamlDocOne]},
               pl : {LegacyOf(<<BodyTwo(SlugA)>>)},
               gy : {[EmptyDir EXCEPT !.files[FileA] = YamlDocTwo]},
               gl : {NoLegacy},
               gs : {NoLegacy, LegacyOf(<<BodyOne(SlugB)>>)}, gm : {NoDir}]
    /\ wfail = FALSE
    /\ edits = QueueEdits
    /\ lastOp = "init"
    /\ prevOp = "init"
    /\ ret = <<>>
    /\ InitYamlModesManager
    /\ disposables = Registered
    /\ \/ InitManager(QueueCalls) /\ InitYamlManager(0, 0)
       \/ InitManager(0) /\ InitYamlManager(QueueYamlCalls, 0)

QueueCallIds == 1..QueueCalls
QueueYamlCallIds == 1..QueueYamlCalls

NextQueues ==
    \/ \E c \in QueueCallIds : updateCustomMode(c)
    \/ \E c \in QueueCallIds : updateCustomMode_existingMode(c)
    \/ \E c \in QueueCallIds : updateCustomMode_refreshMergedState(c)
    \/ \E c \in QueueCallIds : updateCustomMode_fileExistsAtPath(c)
    \/ updateModesInFile_readFile
    \/ updateModesInFile_writeFile
    \/ refreshMergedState
    \/ resetUpdatingMode
    \/ \E c \in QueueYamlCallIds : updateYamlMode(c)
    \/ updateYamlMode_operation
    \/ \E c \in QueueYamlCallIds : deleteYamlMode(c)
    \/ \E c \in QueueYamlCallIds : deleteYamlMode_fileExistsAtPath(c)
    \/ deleteYamlMode_operation
    \/ releaseEditLock
    \/ EnvWriteFailure

SpecQueues == InitQueues /\ [][NextQueues]_vars

----------------------------------------------------------------------------

(* Specification of resetCustomModes next to updateCustomMode: up to       *)
(* ResetCalls calls of either, made at any time                            *)

ResetCalls == 2
ResetEdits == 1

InitReset ==
    /\ fs \in [py : {NoDir},
               pl : {LegacyOf(<<BodyTwo(SlugA)>>),
                     LegacyOf(<<BodyTwo(SlugA), BodyTwo(SlugB)>>)},
               gy : {NoDir}, gl : {NoLegacy},
               gs : {NoLegacy, LegacyOf(<<BodyOne(SlugB)>>)}, gm : {NoDir}]
    /\ wfail = FALSE
    /\ edits = ResetEdits
    /\ lastOp = "init"
    /\ prevOp = "init"
    /\ ret = <<>>
    /\ InitManager(ResetCalls)
    /\ InitYamlModesManager
    /\ disposables = Registered
    /\ InitYamlManager(0, 0)

NextReset ==
    \/ \E c \in CallIds : updateCustomMode(c)
    \/ \E c \in CallIds : updateCustomMode_existingMode(c)
    \/ \E c \in CallIds : updateCustomMode_refreshMergedState(c)
    \/ \E c \in CallIds : updateCustomMode_fileExistsAtPath(c)
    \/ updateModesInFile_readFile
    \/ updateModesInFile_writeFile
    \/ refreshMergedState
    \/ resetUpdatingMode
    \/ \E c \in CallIds : resetCustomModes(c)
    \/ \E c \in CallIds : resetCustomModes_fileExistsAtPath(c)
    \/ \E c \in CallIds : resetCustomModes_writeFile(c)
    \/ EnvWriteFailure

SpecReset == InitReset /\ [][NextReset]_vars

----------------------------------------------------------------------------

(* Specification of the save handlers of CustomModesManager: documents of  *)
(* the two mode directories are saved while updateCustomMode calls run     *)

SaveCalls == 2

InitSave ==
    /\ fs \in [py : {[EmptyDir EXCEPT !.files[FileA] = YamlDocOne]},
               pl : {LegacyOf(<<BodyTwo(SlugA)>>)},
               gy : {[EmptyDir EXCEPT !.files[FileA] = YamlDocTwo]},
               gl : {NoLegacy},
               gs : {NoLegacy, LegacyOf(<<BodyOne(SlugB)>>)}, gm : {NoDir}]
    /\ wfail = FALSE
    /\ edits = 0
    /\ lastOp = "init"
    /\ prevOp = "init"
    /\ ret = <<>>
    /\ InitManager(SaveCalls)
    /\ InitYamlModesManager
    /\ disposables = Registered
    /\ InitYamlManager(0, 0)

NextSave ==
    \/ \E c \in CallIds : updateCustomMode(c)
    \/ \E c \in CallIds : updateCustomMode_existingMode(c)
    \/ \E c \in CallIds : updateCustomMode_refreshMergedState(c)
    \/ \E c \in CallIds : updateCustomMode_fileExistsAtPath(c)
    \/ updateModesInFile_readFile
    \/ updateModesInFile_writeFile
    \/ refreshMergedState
    \/ resetUpdatingMode
    \/ onDidSaveTextDocument

SpecSave == InitSave /\ [][NextSave]_vars

----------------------------------------------------------------------------

(* Specification of the notifications of YamlModesManager's own writes:    *)
(* updateYamlMode and deleteYamlMode calls and the watcher handlers, with  *)
(* no file written from outside                                            *)

NotifyCalls == 2
NotifyEdits == 1

InitNotify ==
    /\ InitYamlStores
    /\ edits = NotifyEdits
    /\ InitYamlModesManager
    /\ disposables = Registered
    /\ InitYamlManager(NotifyCalls, 0)

NextNotify ==
    \/ \E c \in YamlCallIds : updateYamlMode(c)
    \/ updateYamlMode_operation
    \/ \E c \in YamlCallIds : deleteYamlMode(c)
    \/ \E c \in YamlCallIds : deleteYamlMode_fileExistsAtPath(c)
    \/ deleteYamlMode_operation
    \/ releaseEditLock
    \/ onDidChange
    \/ onDidCreate
    \/ onDidDelete
    \/ EnvWriteFailure

SpecNotify == InitNotify /\ [][NextNotify]_vars

----------------------------------------------------------------------------

(* Specification of the timed caches of both YamlModesManagers:            *)
(* getYamlModes calls with time passing, a mode file written from outside  *)
(* and the invalidations that follow                                       *)

TtlGets == 3
TtlEdits == 1

InitTtl ==
    /\ InitYamlStores
    /\ edits = TtlEdits
    /\ InitYamlModesManager
    /\ disposables = Registered
    /\ InitYamlManager(0, TtlGets)

TtlGetIds == 1..TtlGets

NextTtl ==
    \/ \E g \in TtlGetIds : getYamlModes(g)
    \/ \E g \in TtlGetIds : getYamlModes_globalModes(g)
    \/ \E g \in TtlGetIds : getYamlModes_projectModes(g)
    \/ onDidChange
    \/ onDidCreate
    \/ YamlModesManager_getYamlModes
    \/ getModes_scanModes
    \/ EnvWriteYaml
    \/ Tick

SpecTtl == InitTtl /\ [][NextTtl]_vars

----------------------------------------------------------------------------

(* Specification of the two locks: one updateCustomMode and one            *)
(* updateYamlMode call, over a file system that may reject writes from the *)
(* start. Every awaited file operation completes and every timer fires.    *)

InitLocks ==
    /\ fs = [py |-> [EmptyDir EXCEPT !.files[FileA] = YamlDocOne],
             pl |-> LegacyOf(<<BodyTwo(SlugA)>>),
             gy |-> [EmptyDir EXCEPT !.files[FileA] = YamlDocTwo],
             gl |-> NoLegacy, gs |-> NoLegacy, gm |-> NoDir]
    /\ wfail \in BOOLEAN
    /\ edits = LockEdits
    /\ lastOp = "init"
    /\ prevOp = "init"
    /\ ret = <<>>
    /\ InitManager(LockCalls)
    /\ InitYamlModesManager
    /\ disposables = Registered
    /\ InitYamlManager(LockCalls, 0)

NextLocks ==
    \/ \E c \in CallIds : updateCustomMode(c)
    \/ \E c \in CallIds : updateCustomMode_existingMode(c)
    \/ \E c \in CallIds : updateCustomMode_refreshMergedState(c)
    \/ \E c \in CallIds : updateCustomMode_fileExistsAtPath(c)
    \/ updateModesInFile_readFile
    \/ updateModesInFile_writeFile
    \/ refreshMergedState
    \/ resetUpdatingMode
    \/ \E c \in YamlCallIds : updateYamlMode(c)
    \/ updateYamlMode_operation
    \/ releaseEditLock
    \/ onDidChange
    \/ onDidCreate
    \/ EnvWriteYaml
    \/ EnvWriteFailure

\* the steps the program takes by itself: awaited operations that complete and
\* timers that fire
Progress ==
    \/ \E c \in CallIds : updateCustomMode_existingMode(c)
    \/ \E c \in CallIds : updateCustomMode_refreshMergedState(c)
    \/ \E c \in CallIds : updateCustomMode_fileExistsAtPath(c)
    \/ updateModesInFile_readFile
    \/ updateModesInFile_writeFile
    \/ refreshMergedState
    \/ resetUpdatingMode
    \/ updateYamlMode_operation
    \/ releaseEditLock

FairLocks == WF_vars(Progress)

SpecLocks == InitLocks /\ [][NextLocks]_vars /\ FairLocks

----------------------------------------------------------------------------
(* services/modeConfig: saveMode                                           *)

\* the records that saveMode is given: loaded from a store, or made by the UI
ModeOf(slug, source, origin) ==
    [slug |-> slug, name |-> NameThree, roleDefinition |-> RoleOne,
     customInstructions |-> Undefined,
     groups |-> <<[g |-> "read", o |-> "undefined"], [g |-> "edit", o |-> "{re}"]>>,
     source |-> source, origin |-> origin]

Origins == {"yaml", "json"}

SaveModes == {ModeOf(s, source, origin) : s \in CallSlugs, source \in CallSources,
                                          origin \in Origins}

JsonGroup(item) == [g |-> item.g, o |-> IF OptionsTruthy(item.o) THEN item.o ELSE "bare"]

RECURSIVE JsonGroups(_, _)
JsonGroups(groups, i) ==
    IF i > Len(groups) THEN <<>> ELSE <<JsonGroup(groups[i])>> \o JsonGroups(groups, i + 1)

convertToJsonFormat(mode) ==
    [t |-> "object", slug |-> mode.slug, name |-> mode.name,
     roleDefinition |-> mode.roleDefinition,
     customInstructions |-> mode.customInstructions,
     groups |-> [kind |-> "array", items |-> JsonGroups(mode.groups, 1)],
     source |-> mode.source]

\* findIndex((m) => m.slug === slug): 0 when no element matches, -1 when a
\* null element is reached first and m.slug throws
RECURSIVE findIndex(_, _, _)
findIndex(modes, slug, i) ==
    IF i > Len(modes) THEN 0
    ELSE IF modes[i].t = "null" THEN -1
    ELSE IF modes[i].slug = slug THEN i
    ELSE findIndex(modes, slug, i + 1)

\* the aggregate file after saveToRoomodesFile(mode, file): a file that is
\* missing, unreadable, unparsable or without a customModes array is replaced
\* by one that holds the record alone; the exception of findIndex leaves the
\* function before the write, a rejected write is caught and shown
saveToRoomodesFile(file, mode, fail) ==
    LET modes == IF file.st = "ok" THEN file.modes ELSE <<>>
        index == findIndex(modes, mode.slug, 1)
    IN  IF index = -1 \/ fail THEN file
        ELSE IF index > 0 THEN LegacyOf([modes EXCEPT ![index] = convertToJsonFormat(mode)])
        ELSE LegacyOf(Append(modes, convertToJsonFormat(mode)))

\* the split-format branch of saveMode: the directory is created when it is
\* missing, and a failure to create it ends the call
saveMode_yaml(dir, mode, fail) ==
    IF ~dir.exists /\ fail THEN dir
    ELSE saveYamlFile([dir EXCEPT !.exists = TRUE], mode.slug \o YamlExt,
                      convertToYamlFormat(mode), fail)

\* a saveMode that takes every record for a project record
saveMode_store_project(mode) == IF mode.origin = "json" THEN "pl" ELSE "py"

\* the store that saveMode(mode) writes to
saveMode_store(mode) ==
    IF mode.source = "project"
    THEN IF mode.origin = "json" THEN "pl" ELSE "py"
    ELSE IF mode.origin = "json" THEN "gl" ELSE "gy"

saveMode ==
    \E mode \in SaveModes :
        LET st == saveMode_store(mode)
        IN  /\ fs' = [fs EXCEPT ![st] = IF mode.origin = "json"
                                        THEN saveToRoomodesFile(fs[st], mode, wfail)
                                        ELSE saveMode_yaml(fs[st], mode, wfail)]
            /\ lastOp' = "saveMode"
            /\ prevOp' = lastOp
            /\ ret' = <<mode>>
            /\ UNCHANGED <<wfail, edits, mgrVars>>

WriteEdits == 1

InitWrite ==
    /\ fs \in [py : SeedYaml(YamlDocOne), pl : {LegacyOf(<<BodyTwo(SlugA)>>)},
               gy : {NoDir}, gl : SeedLegacy(BodyOne(SlugB)),
               gs : {NoLegacy}, gm : {NoDir}]
    /\ wfail = FALSE
    /\ edits = WriteEdits
    /\ lastOp = "init"
    /\ prevOp = "init"
    /\ ret = <<>>
    /\ InitManager(0)
    /\ InitYamlModesManager
    /\ disposables = Registered
    /\ InitYamlManager(0, 0)

NextWrite ==
    \/ saveMode
    \/ EnvPutYaml
    \/ EnvPutLegacy
    \/ EnvBreakLegacy
    \/ EnvWriteFailure

SpecWrite == InitWrite /\ [][NextWrite]_vars

----------------------------------------------------------------------------

(* Specification of the watcher setups of CustomModesManager and of the    *)
(* queueing YamlModesManager: the steps of the setups started by the       *)
(* constructors, dispose() of both managers, saves and file notifications, *)
(* with directories and files created after construction                   *)

WatchEdits == 1

InitWatch ==
    /\ fs \in [py : {NoDir}, pl : SeedLegacy(BodyTwo(SlugB)),
               gy : SeedYaml(YamlDocTwo), gl : {NoLegacy},
               gs : {LegacyOf(<<>>)}, gm : {NoDir}]
    /\ wfail = FALSE
    /\ edits = WatchEdits
    /\ lastOp = "init"
    /\ prevOp = "init"
    /\ ret = <<>>
    /\ InitManager(0)
    /\ InitYamlManager(0, 0)
    /\ disposables = Constructed
    /\ InitYamlModesManager

NextWatch ==
    \/ watchCustomModesFiles_getCustomModesFilePath
    \/ watchCustomModesFiles_getWorkspaceRoomodes
    \/ watchCustomModesFiles_projectModesDir
    \/ watchCustomModesFiles_globalModesDir
    \/ watchCustomModesFiles_refreshAllModes
    \/ dispose
    \/ watchYamlModesFiles_mkdir
    \/ yamlDispose
    \/ onDidSaveTextDocument
    \/ onDidSaveTextDocument_roomodes
    \/ onDidChange
    \/ onDidCreate
    \/ EnvWriteYaml
    \/ migrateRoomodes

SpecWatch == InitWatch /\ [][NextWatch]_vars

----------------------------------------------------------------------------

(* Specification of the identity of an upsert: updateCustomMode calls      *)
(* whose config carries the slug of the call or another one                *)

IdentityCalls == 2

InitIdentity ==
    /\ fs \in [py : {NoDir}, pl : {LegacyOf(<<BodyTwo(SlugA), BodyTwo(SlugB)>>)},
               gy : {NoDir}, gl : SeedLegacy(BodyOne(SlugA)),
               gs : {NoLegacy, LegacyOf(<<BodyOne(SlugA), BodyOne(SlugB)>>)}, gm : {NoDir}]
    /\ wfail = FALSE
    /\ edits = 0
    /\ lastOp = "init"
    /\ prevOp = "init"
    /\ ret = <<>>
    /\ InitManager(IdentityCalls)
    /\ InitYamlModesManager
    /\ disposables = Registered
    /\ InitYamlManager(0, 0)

NextIdentity ==
    \/ \E c \in CallIds : updateCustomMode(c)
    \/ \E c \in CallIds : updateCustomMode_configSlug(c)
    \/ \E c \in CallIds : updateCustomMode_existingMode(c)
    \/ \E c \in CallIds : updateCustomMode_refreshMergedState(c)
    \/ \E c \in CallIds : updateCustomMode_fileExistsAtPath(c)
    \/ updateModesInFile_readFile
    \/ updateModesInFile_writeFile
    \/ refreshMergedState
    \/ resetUpdatingMode

SpecIdentity == InitIdentity /\ [][NextIdentity]_vars

----------------------------------------------------------------------------

(* Specification of the deletions of CustomModesManager: deleteCustomMode  *)
(* calls on stores that hold a slug in one or several places               *)

RemoveCalls == 2
RemoveEdits == 1

InitRemove ==
    /\ fs \in [py : SeedYaml(YamlDocOne),
               pl : {LegacyOf(<<BodyTwo(SlugA), BodyTwo(SlugB)>>)},
               gy : {NoDir}, gl : SeedLegacy(BodyOne(SlugA)),
               gs : {LegacyOf(<<>>), LegacyOf(<<BodyOne(SlugA), BodyOne(SlugB)>>)},
               gm : {NoDir}]
    /\ wfail = FALSE
    /\ edits = RemoveEdits
    /\ lastOp = "init"
    /\ prevOp = "init"
    /\ ret = <<>>
    /\ InitManager(RemoveCalls)
    /\ InitYamlModesManager
    /\ disposables = Registered
    /\ InitYamlManager(0, 0)

NextRemove ==
    \/ \E c \in CallIds : deleteCustomMode(c)
    \/ \E c \in CallIds : deleteCustomMode_loadModesFromFile(c)
    \/ deleteCustomMode_updateModesInFile
    \/ refreshMergedState
    \/ getCustomModes
    \/ EnvWriteFailure

SpecRemove == InitRemove /\ [][NextRemove]_vars

----------------------------------------------------------------------------

(* What the claims speak of, stated on the files themselves *)

Slugs == {SlugA, SlugB, SlugBad, SlugEmpty, Undefined}

\* s is a non-empty string of letters, digits and hyphens
WellFormedSlug(s) ==
    /\ s # Undefined
    /\ Len(s) >= 1
    /\ {s[i] : i \in 1..Len(s)} \subseteq (Alnum \cup {"-"})

NamedFor(file) == Basename(file, YamlExt)

ValidYamlStore(dir) ==
    \A file \in FileNames :
        dir.files[file].st # "absent" =>
            /\ dir.exists
            /\ EndsWith(file, YamlExt)
            /\ WellFormedSlug(NamedFor(file))
            /\ dir.files[file].st = "ok"
            /\ modeConfigInputSchemaV2(dir.files[file])

ValidLegacyStore(file) ==
    /\ file.st \in {"absent", "ok"}
    /\ \A i \in 1..Len(file.modes) :
          /\ file.modes[i].t = "object"
          /\ WellFormedSlug(file.modes[i].slug)
          /\ modeConfigInputSchemaV1(file.modes[i])

AllValid(f) ==
    /\ ValidYamlStore(f.py) /\ ValidYamlStore(f.gy)
    /\ ValidLegacyStore(f.pl) /\ ValidLegacyStore(f.gl)

HoldsYaml(dir, s) ==
    \E file \in FileNames : NamedFor(file) = s /\ dir.files[file].st # "absent"

HoldsLegacy(file, s) ==
    file.st = "ok" /\ \E i \in 1..Len(file.modes) : file.modes[i].slug = s

Holds(f, st, s) ==
    IF st \in YamlStores THEN HoldsYaml(f[st], s) ELSE HoldsLegacy(f[st], s)

\* a grant without options is the same grant however it is written
Grants(items) ==
    {[g |-> items[i].g,
      o |-> IF items[i].o \in {"bare", "null", "undefined"} THEN "none" ELSE items[i].o] :
        i \in 1..Len(items)}

Content(r, scope) ==
    [name |-> r.name, roleDefinition |-> r.roleDefinition,
     customInstructions |-> r.customInstructions, groups |-> Grants(r.groups.items),
     source |-> scope]

ScopeOf(st) == IF st \in {"py", "pl"} THEN "project" ELSE "global"

\* the store's record for slug s: the file named for s, or the last entry with
\* that slug
Candidate(f, st, s) ==
    IF st \in YamlStores
    THEN Content(f[st].files[CHOOSE file \in FileNames : NamedFor(file) = s], ScopeOf(st))
    ELSE LET last == CHOOSE i \in 1..Len(f[st].modes) :
                        /\ f[st].modes[i].slug = s
                        /\ \A j \in 1..Len(f[st].modes) : f[st].modes[j].slug = s => j <= i
         IN  Content(f[st].modes[last], ScopeOf(st))

Precedence == <<"py", "pl", "gy", "gl">>

TopStore(f, s) ==
    Precedence[CHOOSE i \in 1..4 :
                  /\ Holds(f, Precedence[i], s)
                  /\ \A j \in 1..4 : Holds(f, Precedence[j], s) => i <= j]

ViewContent(m) ==
    [name |-> m.name, roleDefinition |-> m.roleDefinition,
     customInstructions |-> m.customInstructions, groups |-> Grants(m.groups),
     source |-> m.source]

Returned == lastOp = "getCustomModes"

\* C1: when every store holds only valid records, the view returned by
\* getCustomModes has exactly one record for each slug that some store holds,
\* and that record has the name, role definition, instructions, grants and
\* scope of the record in the first store that holds the slug, in the order
\* project split, project legacy, global split, global legacy.
C1_MergePrecedence ==
    (Returned /\ AllValid(fs)) =>
        /\ \A i, j \in 1..Len(ret) : ret[i].slug = ret[j].slug => i = j
        /\ {ret[i].slug : i \in 1..Len(ret)} =
               {s \in Slugs : \E st \in Stores : Holds(fs, st, s)}
        /\ \A i \in 1..Len(ret) :
               ViewContent(ret[i]) = Candidate(fs, TopStore(fs, ret[i].slug), ret[i].slug)

\* C1 witness: slug a is held by all four stores and slug b by the global
\* legacy store alone, and the view has been returned.
C1_Witness ==
    /\ Returned /\ AllValid(fs)
    /\ \A st \in Stores : Holds(fs, st, SlugA)
    /\ Holds(fs, "gl", SlugB) /\ ~Holds(fs, "py", SlugB)
    /\ Len(ret) = 2

\* C2: no record of the returned view has a slug that is missing, empty or
\* holds a character other than a letter, a digit or a hyphen.
C2_NoInvalidSlug ==
    Returned => \A i \in 1..Len(ret) : WellFormedSlug(ret[i].slug)

\* C2 witness: the view is returned while a split store holds a file named
\* for an invalid slug and a legacy store holds an entry without a valid slug.
C2_Witness ==
    /\ Returned
    /\ \E st \in YamlStores : HoldsYaml(fs[st], SlugBad)
    /\ \E st \in LegacyStores, s \in {SlugBad, SlugEmpty, Undefined} : HoldsLegacy(fs[st], s)
    /\ Len(ret) >= 1

\* C6: a run of migrateRoomodes that directly follows another run of it
\* leaves every file of <project>/.roo/modes as the first run left it.
C6_MigrationIdempotent ==
    [][(lastOp = "migrateRoomodes" /\ lastOp' = "migrateRoomodes") => fs'.py = fs.py]_vars

\* C6 witness: two runs in a row, on a legacy file from which the first run
\* wrote the file of slug a.
C6_Witness ==
    /\ prevOp = "migrateRoomodes" /\ lastOp = "migrateRoomodes"
    /\ HoldsLegacy(fs.pl, SlugA)
    /\ fs.py.files[FileA] = YamlDocument(convertToYamlFormat(
                                convertV1ToInternal(BodyTwo(SlugA), SlugA, "project", "json")))

\* C7: no run of migrateRoomodes changes <project>/.roomodes, whether the run
\* converts records, stops at a parse error or stops part of the way.
C7_LegacyFileUntouched ==
    [][lastOp' = "migrateRoomodes" => fs'.pl = fs.pl]_vars

\* C7 witness: a run that stopped at a null element after converting the
\* entry before it.
C7_Witness ==
    /\ lastOp = "migrateRoomodes"
    /\ fs.pl.st = "ok" /\ Len(fs.pl.modes) = 2
    /\ fs.pl.modes[2].t = "null"
    /\ fs.py.exists /\ fs.py.files[FileA].st = "ok"

----------------------------------------------------------------------------
(* Claims about updateCustomMode *)

\* call c has completed without an error message and no other call was made
CompletedAlone(c) ==
    /\ calls[c].pc = "done"
    /\ ~calls[c].err
    /\ \A d \in Calls \ {c} : calls[d].pc = "idle"

HeldBefore(c) == {st \in Stores : Holds(calls[c].fs0, st, calls[c].slug)}

\* the record handed to call c is a new one, or the one loaded from the first
\* store that holds its slug, with the scope it was loaded with
UpsertOf(c) ==
    \/ HeldBefore(c) = {}
    \/ calls[c].config.source = ScopeOf(TopStore(calls[c].fs0, calls[c].slug))

Logical(name, roleDefinition, customInstructions, items) ==
    [name |-> name, roleDefinition |-> roleDefinition,
     customInstructions |-> customInstructions, groups |-> Grants(items)]

LogicalOfConfig(config) ==
    Logical(config.name, config.roleDefinition, config.customInstructions,
            config.groups.items)

\* C3: after updateCustomMode(slug, record) has completed, for a new slug or
\* for a record loaded from any of the four stores, getCustomModes returns for
\* that slug a record with the name, role definition, instructions and grants
\* of the record written.
C3_UpsertRoundTrips ==
    \A c \in Calls :
        (CompletedAlone(c) /\ UpsertOf(c)) =>
            LET view == ConvertedModes(fs)
            IN  \E i \in 1..Len(view) :
                    /\ view[i].slug = calls[c].slug
                    /\ Logical(view[i].name, view[i].roleDefinition,
                               view[i].customInstructions, view[i].groups)
                           = LogicalOfConfig(calls[c].config)

Files == Stores \cup {"gs"}

RecordsIn(f, st) == IF st \in YamlStores THEN f[st].files ELSE f[st]

\* where the claim lets call c write: the store its record was loaded from,
\* or for a new record the stores of its declared scope
Provenance(c) ==
    IF HeldBefore(c) = {}
    THEN {st \in Stores : ScopeOf(st) = calls[c].config.source}
    ELSE {TopStore(calls[c].fs0, calls[c].slug)}

\* C4: updateCustomMode writes an existing record back to the store it was
\* loaded from and a new record to a store of its declared scope, and leaves
\* the records of every other store as they were.
C4_WritesOnlyToProvenance ==
    \A c \in Calls :
        (CompletedAlone(c) /\ UpsertOf(c)) =>
            /\ \A st \in Files \ Provenance(c) :
                   RecordsIn(fs, st) = RecordsIn(calls[c].fs0, st)
            /\ \E st \in Provenance(c) :
                   /\ Holds(fs, st, calls[c].slug)
                   /\ Candidate(fs, st, calls[c].slug)
                          = Content(calls[c].config, ScopeOf(st))

\* the file call c targets holds the entry c wrote
EntryWritten(c) ==
    LET file == fs[TargetOf(calls[c].config)]
    IN  /\ file.st = "ok"
        /\ \E i \in 1..Len(file.modes) : file.modes[i] = calls[c].config

\* C5: when two updateCustomMode calls for distinct slugs that target the
\* same legacy file have both completed, whatever the interleaving of their
\* awaits, the file holds the entry of each call whose own write the file
\* system did not reject.
C5_NoLostUpdate ==
    \A c, d \in Calls :
        ( /\ c # d
          /\ calls[c].pc = "done" /\ calls[d].pc = "done"
          /\ calls[c].enqueued /\ calls[d].enqueued
          /\ calls[c].slug # calls[d].slug
          /\ TargetOf(calls[c].config) = TargetOf(calls[d].config)
          /\ ~calls[c].rejected ) =>
            EntryWritten(c)

----------------------------------------------------------------------------
(* Claims about YamlModesManager *)

\* C8: a watcher notification of any kind and in either scope for the file
\* of a slug whose edit lock is held neither clears the cache nor calls
\* onUpdate.
C8_LockedSlugIgnored ==
    watched.locked => ~watched.reacted

\* C10: a getYamlModes call that starts after an invalidation never returns
\* a view that holds a directory read made before that invalidation, also
\* when a scan was in flight when the cache was invalidated.
C10_ViewReadAfterInvalidation ==
    \A g \in Gets : (gets[g].pc = "done" /\ gets[g].hit) => ~gets[g].stale

\* C9: an edit lock of YamlModesManager and the isUpdatingMode flag of
\* CustomModesManager, once set, are cleared again by a timer, whether the
\* write succeeds, is rejected or throws; and a change notification for a
\* slug whose lock is not held clears the cache and calls onUpdate.
C9_LocksAreCleared ==
    /\ \A s \in CallSlugs : (s \in editLock) ~> (s \notin editLock)
    /\ isUpdatingMode ~> ~isUpdatingMode
    /\ [](watched.kind = "change" /\ ~watched.locked => watched.reacted)

\* both calls were made while writes were rejected and showed an error, both
\* locks were cleared by their timers, and a change of the slug's file that
\* came afterwards was reacted to
C9_Witness ==
    /\ \E c \in Calls : calls[c].pc = "done" /\ calls[c].err
    /\ ~isUpdatingMode /\ resetTimers = 0
    /\ \E c \in YamlCalls :
          /\ yamlCalls[c].pc = "done" /\ yamlCalls[c].err
          /\ yamlCalls[c].slug \notin editLock
          /\ watched = [kind |-> "change", slug |-> yamlCalls[c].slug,
                        locked |-> FALSE, reacted |-> TRUE]
    /\ lockTimers = {}

----------------------------------------------------------------------------
(* Claims about the two write queues *)

\* the write operation that call c queued has not run to its end
OperationPending(c) ==
    \/ \E i \in 1..Len(writeQueue) : writeQueue[i] = UpdateOp(c)
    \/ isWriting /\ drain.op = UpdateOp(c)

YamlOperationPending(c) ==
    \/ \E i \in 1..Len(yamlWriteQueue) : yamlWriteQueue[i] = c
    \/ yamlIsWriting /\ yamlDrain.op = c

\* C11: when a call of updateCustomMode or of updateYamlMode has returned,
\* the write operation it queued has been performed: it is neither waiting in
\* the queue nor running, also when the call was made during another write.
C11_WriteDoneAtCompletion ==
    /\ \A c \in Calls :
          (calls[c].pc = "done" /\ calls[c].enqueued) => ~OperationPending(c)
    /\ \A c \in YamlCalls : yamlCalls[c].pc = "done" => ~YamlOperationPending(c)

\* C12: neither write queue is left with operations in it by a drain that
\* has ended: whenever isWriting is false the queue is empty, also after an
\* operation has thrown.
C12_QueueDrainsPastFailure ==
    /\ ~isWriting => writeQueue = <<>>
    /\ ~yamlIsWriting => yamlWriteQueue = <<>>

----------------------------------------------------------------------------
(* Claims about failures of the stores and of the migration *)

\* the slugs of the entries of a legacy file that are records with a valid slug
LegacySlugs(file) ==
    IF file.st # "ok" THEN {}
    ELSE {file.modes[i].slug : i \in {j \in 1..Len(file.modes) :
                                          /\ file.modes[j].t = "object"
                                          /\ WellFormedSlug(file.modes[j].slug)}}

\* C15: a run of migrateRoomodes, whether it converts every record, is
\* rejected by the file system at some write or stops part of the way, loses
\* no record of <project>/.roomodes: every valid slug of the file that
\* getCustomModes returned before the run is returned after it.
C15_MigrationKeepsLegacyRecords ==
    [][lastOp' = "migrateRoomodes" =>
          \A s \in LegacySlugs(fs.pl) :
              s \in MapKeys(ConvertedModes(fs)) => s \in MapKeys(ConvertedModes(fs'))]_vars

\* C15 witness: the run was made while writes were rejected, so that no file
\* was written for slug a, which only the legacy file holds and the view has.
C15_Witness ==
    /\ lastOp = "migrateRoomodes" /\ wfail
    /\ SlugA \in LegacySlugs(fs.pl)
    /\ \A st \in Stores \ {"pl"} : ~Holds(fs, st, SlugA)
    /\ SlugA \in MapKeys(ConvertedModes(fs))

\* store st gives no record: its root is missing, its file cannot be read or
\* parsed or has no customModes array, or none of its files can be read or parsed
Failed(f, st) ==
    IF st \in YamlStores
    THEN \/ ~f[st].exists
         \/ \A file \in FileNames :
               f[st].files[file].st \in {"absent", "unreadable", "syntax", "scalar"}
    ELSE f[st].st \in {"absent", "unreadable", "syntax", "shape"}

Broken(f, st) ==
    IF st \in YamlStores
    THEN \E file \in FileNames : f[st].files[file].st \in {"unreadable", "syntax", "scalar"}
    ELSE f[st].st \in {"unreadable", "syntax", "shape"}

\* the files without store st
Without(f, st) == [f EXCEPT ![st] = IF st \in YamlStores THEN EmptyDir ELSE NoLegacy]

\* C13: when one store has failed, whatever the failure (missing root,
\* unreadable file, unparsable content, no customModes array), getCustomModes
\* returns, and what it returns is the merged view of the other three stores.
C13_FailedStoreIsolated ==
    \A st \in Stores :
        (Returned /\ Failed(fs, st)) => ret = ConvertedModes(Without(fs, st))

\* C13 witness: the view was returned with the project legacy file unparsable
\* and a file of the global split store unreadable, and holds the records of
\* the stores that could be read.
C13_Witness ==
    /\ Returned
    /\ fs.pl.st = "syntax"
    /\ fs.gy.files[FileA].st = "unreadable"
    /\ Failed(fs, "pl") /\ Failed(fs, "gy") /\ Broken(fs, "pl") /\ Broken(fs, "gy")
    /\ Holds(fs, "py", SlugA) /\ Holds(fs, "gl", SlugA)
    /\ Len(ret) = 1 /\ ret[1].source = "project"

\* store st holds slug s, and only with bodies that the record schema rejects
HoldsOnlyInvalid(f, st, s) ==
    /\ Holds(f, st, s)
    /\ IF st \in YamlStores
       THEN \A file \in FileNames :
               (NamedFor(file) = s /\ f[st].files[file].st # "absent") =>
                   ~(f[st].files[file].st = "ok" /\ modeConfigInputSchemaV2(f[st].files[file]))
       ELSE \A i \in 1..Len(f[st].modes) :
               f[st].modes[i].slug = s => ~modeConfigInputSchemaV1(f[st].modes[i])

\* C14: a record whose body fails validation (name or roleDefinition missing
\* or empty, malformed groups) is dropped by the loader of either format: a
\* slug that the stores hold only with such bodies is not in the view that
\* getCustomModes returns.
C14_InvalidBodyDropped ==
    Returned =>
        \A s \in {SlugA, SlugB} :
            ( /\ \E st \in Stores : Holds(fs, st, s)
              /\ \A st \in Stores : Holds(fs, st, s) => HoldsOnlyInvalid(fs, st, s) ) =>
                s \notin MapKeys(ret)

----------------------------------------------------------------------------
(* Claims about the readers of the split format *)

\* the file name without its extension
Stripped(file) ==
    IF EndsWith(file, YamlExt) THEN Basename(file, YamlExt)
    ELSE IF EndsWith(file, YmlExt) THEN Basename(file, YmlExt)
    ELSE file

\* every record of the view is the record of a file of dir, with the file's
\* name without extension as its slug
NamedByFile(view, dir) ==
    \A i \in 1..Len(view) :
        \E file \in FileNames :
            /\ dir.files[file].st = "ok"
            /\ view[i].slug = Stripped(file)
            /\ view[i].name = dir.files[file].name
            /\ view[i].roleDefinition = dir.files[file].roleDefinition

\* C16: every record that a split-format loader returns (the loaders of
\* loadAllModes, loadModesFromDirectory, scanModes) has for slug the name of
\* its file without the extension, whatever slug the content declares or omits.
C16_SlugFromFilename ==
    /\ NamedByFile(loadProjectYamlModes(fs), fs.py)
    /\ NamedByFile(loadGlobalYamlModes(fs), fs.gy)
    /\ NamedByFile(loadModesFromDirectory(fs.py, "project"), fs.py)
    /\ NamedByFile(loadModesFromDirectory(fs.gy, "global"), fs.gy)
    /\ NamedByFile(scanModes(fs), fs.py)

\* the directory without the files that cannot be read, do not parse, or parse
\* to something that is no mapping
Parsable(dir) ==
    [dir EXCEPT !.files = [file \in FileNames |->
                              IF dir.files[file].st \in {"unreadable", "syntax", "scalar"}
                              THEN NoFile ELSE dir.files[file]]]

\* C18: a scan of getYamlModes, in either YamlModesManager, returns what it
\* would return if the files that cannot be parsed, or that parse to something
\* that is not a record, were not there: such a file gives no record and
\* hides no other file.
C18_MalformedFileIgnored ==
    [][/\ (scan.pc = "scanModes" /\ scan'.pc = "idle") =>
              ret' = scanModes([fs EXCEPT !.py = Parsable(fs.py)])
       /\ \A g \in Gets :
              /\ (gets[g].pc = "globalModes" /\ gets'[g].pc = "projectModes") =>
                     gets'[g].globalModes = loadModesFromDirectory(Parsable(fs.gy), "global")
              /\ (gets[g].pc = "projectModes" /\ gets'[g].pc = "done") =>
                     gets'[g].modes =
                         MergedModes(loadModesFromDirectory(Parsable(fs.py), "project"),
                                     gets[g].globalModes)]_vars

\* C18 witness: <project>/.roo/modes holds a file that does not parse next to
\* a well-formed one, and both managers have returned the well-formed one.
C18_Witness ==
    /\ fs.py.files[FileB].st = "syntax"
    /\ fs.py.files[FileA] = YamlDocTwo
    /\ lastOp = "YamlModesManager.getYamlModes" /\ prevOp = "env"
    /\ Len(ret) = 1 /\ ret[1].name = NameTwo
    /\ \E g \in Gets :
          /\ gets[g].pc = "done"
          /\ \E i \in 1..Len(gets[g].modes) :
                gets[g].modes[i].slug = SlugA /\ gets[g].modes[i].name = NameTwo

\* C19: a well-formed file <slug>.yml is loaded like <slug>.yaml by every
\* reader of the split format: when <project>/.roo/modes holds a well-formed
\* b.yml, the view of getCustomModes and the scan of loadModesFromDirectory
\* hold a record of that file, and so does the scan of scanModes when the
\* file declares its slug.
C19_AliasExtension ==
    LET doc == fs.py.files[FileYml]
    IN  (fs.py.exists /\ doc.st = "ok" /\ modeConfigInputSchemaV2(doc)) =>
            /\ Returned => SlugB \in MapKeys(ret)
            /\ SlugB \in MapKeys(loadModesFromDirectory(fs.py, "project"))
            /\ SlugB \in MapKeys(scanModes([fs EXCEPT !.py.files[FileYml].slug = SlugB]))

\* C20: a getYamlModes called after updateYamlMode(slug, config) has
\* completed, with config.source project or global and nothing else done in
\* between, returns a record with that slug and the name and role definition
\* of config.
C20_YamlRoundTrip ==
    [][( /\ scan.pc = "scanModes" /\ scan'.pc = "idle"
         /\ scan.after = "YamlModesManager.updateYamlMode"
         /\ lastOp = "YamlModesManager.updateYamlMode"
         /\ written.kind = "update" /\ ~written.err ) =>
           \E i \in 1..Len(ret') :
               /\ ret'[i].slug = written.slug
               /\ ret'[i].name = ConfigOf(written.slug, written.source).name
               /\ ret'[i].roleDefinition
                      = ConfigOf(written.slug, written.source).roleDefinition]_vars

----------------------------------------------------------------------------
(* Claims about deletion *)

\* C17: deleteYamlMode(slug, source) for a slug whose file does not exist
\* shows no error and leaves the files as they are, in both managers.
C17_DeleteIdempotent ==
    [][/\ \A c \in YamlCalls :
              ( /\ yamlCalls[c].pc = "fileExistsAtPath"
                /\ yamlCalls'[c].pc = "done"
                /\ fs[DirOf(yamlCalls[c].config.source)]
                     .files[yamlCalls[c].slug \o YamlExt].st = "absent" ) =>
                  (~yamlCalls'[c].err /\ fs' = fs)
       /\ (lastOp' = "YamlModesManager.deleteYamlMode" /\ UNCHANGED <<wfail, edits, ymVars>>) =>
              LET path == getSingleYamlPath(written'.slug, written'.source)
              IN  fs[path.dir].files[path.file].st = "absent" =>
                      (~written'.err /\ fs' = fs)]_vars

----------------------------------------------------------------------------
(* Claims about the order in which the write queues run their operations *)

\* the last await of a queued operation of CustomModesManager
LastStage(op) == IF op.kind = "create" THEN "writeFile" ELSE "refreshMergedState"

\* an operation starts in this step
OperationStarts == drain'.op # NoOp /\ drain'.op # drain.op
YamlOperationStarts == yamlDrain'.op # 0 /\ yamlDrain'.op # yamlDrain.op

\* no call enters queueWrite in this step
NoYamlCallAdvances ==
    \A c \in YamlCalls :
        yamlCalls[c].pc \in {"idle", "fileExistsAtPath"} => yamlCalls'[c].pc = yamlCalls[c].pc

\* C21: in both write queues at most one queued operation is executing: an
\* operation starts only when none is running, or in the step in which the
\* running one returns from its last await or throws; and one is running
\* exactly while isWriting is set.
C21_OneOperationAtATime ==
    [][/\ OperationStarts => (drain.op = NoOp \/ drain.stage = LastStage(drain.op))
       /\ YamlOperationStarts => (yamlDrain.op = 0 \/ NoYamlCallAdvances)
       /\ isWriting' = (drain'.op # NoOp)
       /\ yamlIsWriting' = (yamlDrain'.op # 0)]_vars

\* an operation is pushed while another one is running, in either queue
C21_Witness ==
    \/ isWriting /\ writeQueue # <<>> /\ drain.stage = "writeFile"
    \/ yamlIsWriting /\ Len(yamlWriteQueue) = 2

IsPrefix(p, q) == Len(p) <= Len(q) /\ SubSeq(q, 1, Len(p)) = p

\* one step of a queue q with running operation old: an operation that
\* starts is the oldest one waiting, and the others keep their order, with
\* the operations pushed in this step behind them
FifoStep(q, q2, old, new, none) ==
    IF new # none /\ new # old /\ q # <<>>
    THEN new = Head(q) /\ IsPrefix(Tail(q), q2)
    ELSE IsPrefix(q, q2)

\* C22: both write queues run their operations in the order in which
\* queueWrite pushed them, also after an operation has thrown and in a drain
\* that is started later.
C22_FifoOrder ==
    [][/\ FifoStep(writeQueue, writeQueue', drain.op, drain'.op, NoOp)
       /\ FifoStep(yamlWriteQueue, yamlWriteQueue', yamlDrain.op, yamlDrain'.op, 0)]_vars

\* an operation left in the queue by a drain that a rejected write ended runs
\* in a later drain ahead of that drain's own; or a second operation runs
\* after the first has thrown, with a third one waiting
C22_Witness ==
    \/ /\ isWriting
       /\ drain.op.call # drain.owner
       /\ calls[drain.op.call].pc = "done"
       /\ \E c \in Calls : calls[c].rejected
       /\ writeQueue # <<>>
    \/ /\ yamlIsWriting
       /\ yamlDrain.thrown
       /\ yamlDrain.op # yamlDrain.owner
       /\ yamlWriteQueue # <<>>

\* call c's write of its record into the legacy file is applied in this step
WriteApplied(c) ==
    /\ drain.op = UpdateOp(c)
    /\ drain.stage = "writeFile"
    /\ drain'.stage = "refreshMergedState"

\* call c has written its record
HasWritten(c) == calls[c].enqueued /\ ~calls[c].rejected /\ ~OperationPending(c)

\* calls c and d are for one slug that the view held when each was made, and
\* for one legacy file
SameRecord(c, d) ==
    /\ calls[c].slug = calls[d].slug
    /\ calls[c].pc # "idle" /\ calls[d].pc # "idle"
    /\ TargetOf(calls[c].config) = TargetOf(calls[d].config)
    /\ calls[c].slug \in MapKeys(ConvertedModes(calls[c].fs0))
    /\ calls[d].slug \in MapKeys(ConvertedModes(calls[d].fs0))

\* C23: of two updateCustomMode calls for the same existing slug in the same
\* legacy file, the one made first writes first: when the later call's write
\* is applied, the earlier call's write has been applied (calls are made in
\* the order of their numbers).
C23_SubmissionOrder ==
    [][\A c, d \in Calls :
          (c < d /\ SameRecord(c, d) /\ ~wfail /\ ~calls[c].err /\ WriteApplied(d)) =>
              HasWritten(c)]_vars

\* the running operation has read legacy file st and not yet written it
BetweenReadAndWrite(st) ==
    /\ drain.op.kind = "update"
    /\ drain.stage = "writeFile"
    /\ TargetOf(calls[drain.op.call].config) = st

\* C24: no write to a legacy file happens between the read and the write of
\* an operation's read-modify-write of that file: while an operation stands
\* between the two, the file is changed only by that operation's own write.
C24_NoWriteInsideReadModifyWrite ==
    [][\A st \in {"pl", "gs"} :
          (BetweenReadAndWrite(st) /\ fs'[st] # fs[st]) =>
              drain'.stage = "refreshMergedState"]_vars

----------------------------------------------------------------------------
(* Claims about the locks that suppress the watchers *)

\* C25: the lock of a write is held for as long as the write runs: while the
\* operation of an updateYamlMode(slug) call is running, slug is in editLock,
\* and while the operation of an updateCustomMode call is running,
\* isUpdatingMode is set.
C25_LockHeldDuringWrite ==
    /\ (yamlIsWriting /\ yamlCalls[yamlDrain.op].kind = "update") =>
           yamlCalls[yamlDrain.op].slug \in editLock
    /\ (isWriting /\ drain.op.kind = "update") => isUpdatingMode

\* C26: a save notification for the file of a slug other than the slug being
\* written is not suppressed: its handler reloads the modes and calls the
\* refresh callback, also while an updateCustomMode of another slug runs or
\* its flag has not yet been reset.
C26_SuppressionPerSlug ==
    [][(watched' # watched /\ watched'.kind = "save" /\ watched'.slug # updatingModeSlug) =>
           watched'.reacted]_vars

----------------------------------------------------------------------------
(* Claims about the refresh callback and the cache of YamlModesManager *)

\* a watcher handler runs in this step
HandlerRuns == events' # events /\ events' \subseteq events

\* C27: one successful updateYamlMode or deleteYamlMode has onUpdate called
\* exactly once. The operation calls it itself after its write, and with no
\* file written from outside every notification stems from such a write, so
\* no handler of a notification calls onUpdate again.
C27_OnUpdateOnce ==
    [][HandlerRuns => ~watched'.reacted]_vars

\* the cache entries are younger than their time to live
Fresh == cachedModes.some /\ clock - cachedAt < cacheTTL
InjectedFresh == cache.some /\ clock - stamp < ttl

\* C28: getYamlModes returns the cached view, reading no store, exactly when
\* an entry exists and now - timestamp < TTL; otherwise it scans, and the
\* scan's end replaces the entry by what it has resolved, stamped with the
\* time at which the call started. So an entry is never served TTL or more
\* after the start of the scan that resolved it. In both managers.
C28_CacheDecisionRule ==
    [][/\ \A g \in Gets :
             /\ (gets[g].pc = "idle" /\ gets'[g].pc # "idle") =>
                    IF Fresh
                    THEN /\ gets'[g].pc = "done"
                         /\ gets'[g].modes = cachedModes.modes
                         /\ UNCHANGED <<fs, cachedModes, cachedAt>>
                    ELSE /\ gets'[g].pc = "globalModes"
                         /\ gets'[g].now = clock
             /\ (gets[g].pc = "projectModes" /\ gets'[g].pc = "done") =>
                    /\ cachedModes' = Cached(gets'[g].modes)
                    /\ cachedAt' = gets[g].now
       /\ (scan.pc = "idle" /\ scan'.pc = "scanModes") =>
              (~InjectedFresh /\ scan'.now = clock)
       /\ (scan.pc = "idle" /\ scan'.pc = "idle"
             /\ <<lastOp, prevOp, ret>>' # <<lastOp, prevOp, ret>>) =>
              (InjectedFresh /\ ret' = cache.modes /\ UNCHANGED <<fs, cache, stamp>>)
       /\ (scan.pc = "scanModes" /\ scan'.pc = "idle") =>
              (cache' = Cached(ret') /\ stamp' = scan.now)]_vars

\* one call has returned the cache, and another one scans again because the
\* entry that exists is too old, in both managers
C28_Witness ==
    /\ \E g, h \in Gets :
          /\ gets[g].pc = "done" /\ gets[g].hit
          /\ gets[h].pc = "globalModes" /\ gets[h].now = clock
          /\ cachedModes.some /\ clock - cachedAt >= cacheTTL
    /\ scan.pc = "scanModes" /\ scan.now = clock
    /\ cache.some /\ clock - stamp >= ttl

----------------------------------------------------------------------------
(* Claims about what the migration writes *)

\* C29: a run of migrateRoomodes that finds <project>/.roo/modes in place
\* creates, overwrites or changes no file in it.
C29_MigrationOnlyWithoutRoot ==
    [][(lastOp' = "migrateRoomodes" /\ fs.py.exists) => fs'.py = fs.py]_vars

\* the files the migration of legacy file `file` is to write
MigrationTargets(file) == {s \o YamlExt : s \in LegacySlugs(file)}

\* C30: a run of migrateRoomodes on a project with a legacy file and without
\* <project>/.roo/modes, with no write rejected, leaves in the new directory
\* exactly the files <slug>.yaml of the entries whose slug matches the
\* pattern, and no file for any other entry.
C30_MigrationWritesValidEntries ==
    [][(lastOp' = "migrateRoomodes" /\ ~fs.py.exists /\ fs.pl.st = "ok" /\ ~wfail) =>
           /\ fs'.py.exists
           /\ \A file \in FileNames :
                  fs'.py.files[file].st # "absent" <=> file \in MigrationTargets(fs.pl)]_vars

----------------------------------------------------------------------------
(* Claims about the content and the place of what is written *)

\* the last entry of a legacy file that carries slug s
LastEntry(file, s) ==
    file.modes[CHOOSE i \in 1..Len(file.modes) :
                  /\ file.modes[i].slug = s
                  /\ \A j \in 1..Len(file.modes) : file.modes[j].slug = s => j <= i]

NoNullEntry(file) == \A i \in 1..Len(file.modes) : file.modes[i].t = "object"

\* C31: a run of migrateRoomodes with no write rejected leaves, for every
\* entry of <project>/.roomodes with a valid slug, a file <slug>.yaml that
\* decodes to the name, role definition, instructions and set of grants of
\* the entry: a bare grant is a grant without options, a grant with options
\* keeps them.
C31_MigrationPreservesContent ==
    [][(lastOp' = "migrateRoomodes" /\ fs.pl.st = "ok" /\ NoNullEntry(fs.pl) /\ ~wfail) =>
           \A s \in LegacySlugs(fs.pl) :
               LET doc == fs'.py.files[s \o YamlExt]
                   entry == LastEntry(fs.pl, s)
               IN  /\ doc.st = "ok"
                   /\ Logical(doc.name, doc.roleDefinition, doc.customInstructions,
                              doc.groups.items)
                          = Logical(entry.name, entry.roleDefinition,
                                    entry.customInstructions, entry.groups.items)]_vars

\* the store of a scope and a format
StoreOf(source, origin) ==
    CHOOSE st \in Stores :
        /\ ScopeOf(st) = source
        /\ (st \in LegacyStores) = (origin = "json")

EntriesOf(file) == IF file.st = "ok" THEN file.modes ELSE <<>>

\* the records of a store other than the record of slug s
OtherRecords(f, st, s) ==
    IF st \in YamlStores
    THEN [file \in FileNames \ {s \o YamlExt} |-> f[st].files[file]]
    ELSE LET Others(m) == m.slug # s IN SelectSeq(EntriesOf(f[st]), Others)

UpsertInto(before, after, s, record) ==
    LET Others(m) == m.slug # s
    IN  /\ Cardinality({i \in 1..Len(after) : after[i].slug = s}) = 1
        /\ \A i \in 1..Len(after) : after[i].slug = s => after[i] = record
        /\ SelectSeq(after, Others) = SelectSeq(before, Others)

\* loading the aggregate file gives for slug s the content of `mode`
LoadsAs(file, scope, s, mode) ==
    LET map == loadRoomodesModes(file, scope)
    IN  /\ MapHas(map, s)
        /\ Logical(MapGet(map, s).name, MapGet(map, s).roleDefinition,
                   MapGet(map, s).customInstructions, MapGet(map, s).groups)
               = Logical(mode.name, mode.roleDefinition, mode.customInstructions,
                         mode.groups)

\* C33: after saveToRoomodesFile (the aggregate branch of saveMode) or
\* updateModesInFile has written slug s into an aggregate file without null
\* elements, whatever else it held, the array holds exactly one entry of slug
\* s, the written record, the entries of other slugs are as before, and
\* loading the file gives the written record for s.
C33_LegacyUpsert ==
    [][/\ (lastOp' = "saveMode" /\ ret'[1].origin = "json" /\ ~wfail) =>
              LET mode == ret'[1]
                  st == saveMode_store(mode)
              IN  NoNullEntry(fs[st]) =>
                      /\ UpsertInto(EntriesOf(fs[st]), EntriesOf(fs'[st]), mode.slug,
                                    convertToJsonFormat(mode))
                      /\ LoadsAs(fs'[st], ScopeOf(st), mode.slug, mode)
       /\ (drain.stage = "writeFile" /\ drain'.stage = "refreshMergedState") =>
              LET c == drain.op.call
                  st == TargetOf(calls[c].config)
              IN  /\ UpsertInto(drain.content.modes, EntriesOf(fs'[st]), calls[c].slug,
                                calls[c].config)
                  /\ st = "pl" =>
                         LET map == loadRoomodesModes(fs'[st], "project")
                         IN  /\ MapHas(map, calls[c].slug)
                             /\ Logical(MapGet(map, calls[c].slug).name,
                                        MapGet(map, calls[c].slug).roleDefinition,
                                        MapGet(map, calls[c].slug).customInstructions,
                                        MapGet(map, calls[c].slug).groups)
                                    = LogicalOfConfig(calls[c].config)]_vars

FormatOf(st) == IF st \in YamlStores THEN "yaml" ELSE "json"

\* record r of the view says which format it was loaded from
CarriesFormat(r, format) ==
    \E field \in {"origin", "format"} \cap DOMAIN r : r[field] = format

\* C34: when every store holds only valid records, each record that
\* getCustomModes returns carries the scope and the format of the first
\* store in the order of precedence that holds its slug, the store it was
\* loaded from.
C34_ViewCarriesProvenance ==
    [][(lastOp' = "getCustomModes" /\ AllValid(fs)) =>
           \A i \in 1..Len(ret') :
               LET st == TopStore(fs, ret'[i].slug)
               IN  /\ ret'[i].source = ScopeOf(st)
                   /\ CarriesFormat(ret'[i], FormatOf(st))]_vars

----------------------------------------------------------------------------
(* Claims about errors, watchers and identity *)

\* C35: in CustomModesManager a call whose operation has been taken from the
\* queue has shown an error exactly when its own operation failed; in the
\* queueing YamlModesManager the call that started a drain and whose own
\* operation did not fail shows no error when the drain ends with another
\* call's operation.
C35_FailureReportedToSubmitter ==
    [][/\ \A c \in Calls :
              (calls'[c].pc = "done" /\ calls'[c].enqueued /\ ~OperationPending(c)') =>
                  (calls'[c].err <=> calls'[c].rejected)
       /\ (yamlIsWriting /\ ~yamlIsWriting' /\ ~yamlDrain.thrown
             /\ yamlDrain.op # yamlDrain.owner) =>
              ~yamlCalls'[yamlDrain.owner].err]_vars

SplitStores == {"py", "gy", "gm"}

\* what a split-format write of slug s in scope `source` is to leave: the file
\* named for s in the directory that the loaders of the scope read, and no
\* change of any other mode file
SplitWriteOf(f, g, s, source) ==
    /\ g[DirOf(source)].files[s \o YamlExt].st = "ok"
    /\ \A st \in SplitStores, file \in FileNames :
           g[st].files[file] # f[st].files[file] =>
               (st = DirOf(source) /\ Stripped(file) = s)

\* C36: a split-format write of slug s that is not rejected, by
\* YamlModesManager.updateYamlMode of either manager or by saveMode, leaves a
\* file whose name without the extension is s in the modes directory of the
\* record's scope, where the loaders of loadAllModes read it.
C36_SplitWriteNamedForSlug ==
    [][/\ ( /\ lastOp' = "YamlModesManager.updateYamlMode"
            /\ UNCHANGED <<wfail, edits, ymVars>>
            /\ ~written'.err ) =>
              SplitWriteOf(fs, fs', written'.slug, written'.source)
       /\ ( /\ yamlIsWriting /\ yamlDrain' # yamlDrain /\ ~wfail
            /\ yamlCalls[yamlDrain.op].kind = "update" ) =>
              SplitWriteOf(fs, fs', yamlCalls[yamlDrain.op].slug,
                           yamlCalls[yamlDrain.op].config.source)
       /\ (lastOp' = "saveMode" /\ ret'[1].origin = "yaml" /\ ~wfail) =>
              SplitWriteOf(fs, fs', ret'[1].slug, ret'[1].source)]_vars

\* a save of a document of a modes directory or of <project>/.roomodes is
\* notified
SaveNotified == watched' # watched /\ watched'.kind = "save"

\* C37: once the watcher setup of CustomModesManager has ended, and until the
\* manager is disposed, every save of a split-format file in the project or
\* global modes directory or of <project>/.roomodes that comes while no update
\* is in progress makes the manager reload and call the refresh callback,
\* also when the directory or file was created after the construction.
C37_ReactsToEveryLocation ==
    [][( /\ SaveNotified
         /\ ~isUpdatingMode
         /\ disposables.setup = "done" /\ ~disposables.disposed ) =>
           (watched'.reacted /\ lastOp' = "refreshAllModes")]_vars

\* C38: once dispose() of a manager has returned, no save makes
\* CustomModesManager reload and no file notification makes the queueing
\* YamlModesManager clear its cache and call the refresh callback, also when
\* dispose() was called before the watcher setup had ended.
C38_NoReactionAfterDispose ==
    [][/\ (disposables.disposed /\ SaveNotified) => ~watched'.reacted
       /\ disposables.yamlDisposed => ~HandlerRuns]_vars

EntriesWith(modes, s) == LET Same(m) == m.slug = s IN SelectSeq(modes, Same)

\* C39: when updateModesInFile writes the upsert of updateCustomMode(slug,
\* config), the file holds afterwards one entry of slug, with the content of
\* config; the entries of every other slug are the ones it held before, and
\* a file without two entries of one slug has none afterwards.
C39_SlugIsIdentity ==
    [][(drain.stage = "writeFile" /\ drain'.stage = "refreshMergedState") =>
           LET c == drain.op.call
               before == drain.content.modes
               after == EntriesOf(fs'[TargetOf(calls[c].config)])
           IN  /\ Len(EntriesWith(after, calls[c].slug)) = 1
               /\ LogicalOfConfig(EntriesWith(after, calls[c].slug)[1])
                      = LogicalOfConfig(calls[c].config)
               /\ \A t \in Slugs \ {calls[c].slug} :
                      EntriesWith(after, t) = EntriesWith(before, t)
               /\ (\A t \in Slugs : Len(EntriesWith(before, t)) <= 1) =>
                      (\A t \in Slugs : Len(EntriesWith(after, t)) <= 1)]_vars

\* a deleteCustomMode call returns to its caller without an error
DeleteReturns(c) ==
    /\ calls[c].pc \in {"deleteCustomMode.loadModesFromFile", "deleteCustomMode.queueWrite"}
    /\ calls'[c].pc = "done"
    /\ ~calls'[c].err

\* C40: when deleteCustomMode(slug) completes without reporting an error,
\* slug is not in the merged view that getCustomModes() returns, whichever
\* stores held it before the call, and the steps of its operation leave the
\* records of every other slug in every store as they were.
C40_DeleteRemovesFromView ==
    [][/\ \A c \in CallIds :
              (c \in Calls /\ DeleteReturns(c)) =>
                  calls[c].slug \notin MapKeys(ConvertedModes(fs'))
       /\ (drain.stage \in {"deleteCustomMode.roomodes", "deleteCustomMode.settings"}) =>
              \A st \in Stores \cup {"gs"} :
                  OtherRecords(fs', st, calls[drain.op.call].slug)
                      = OtherRecords(fs, st, calls[drain.op.call].slug)]_vars

====
